---- MODULE Spec2Model ----
(***************************************************************************)
(* LifeOS plugin SDK: the plugin registry (capability index, version       *)
(* gate), the version checker and the plugin manager (event routing,       *)
(* system sync, system status).                                            *)
(*                                                                         *)
(* Strings the code parses (versions, ranges) are sequences of one-        *)
(* character strings, so that parsing is computed and not assumed.         *)
(***************************************************************************)
EXTENDS Integers, Sequences, FiniteSets, TLC

VARIABLES
    plugins,               \* PluginRegistry.plugins: Map<id, plugin>, in insertion order
    capabilityIndex,       \* PluginRegistry.capabilityIndex: Map<type, Set<id>>
    currentLifeOSVersion,  \* PluginRegistry.currentLifeOSVersion
    settings,              \* each plugin object's own settings (plugin-owned state)
    pass,                  \* the Manager pass in progress (routeEvent / sync / status)
    lastOp,                \* the last registry call and its outcome (observation only)
    probe,                 \* a pure function under test: its input and its output
    manager,               \* PluginManager: the auto-sync timer, its passes, destroy()
    oauth,                 \* OAuthService: activeFlows, tokenStorage, callbacks in flight
    marketplace            \* MarketplaceService: installedPlugins, calls in flight

vars == <<plugins, capabilityIndex, currentLifeOSVersion, settings, pass, lastOp,
          probe, manager, oauth, marketplace>>

(***************************************************************************)
(* Strings as character sequences                                          *)
(***************************************************************************)
Digits == {"0", "1", "2", "3", "4", "5", "6", "7", "8", "9"}

Letters == {"a", "b", "c", "d", "e", "f", "g", "h", "i", "j", "k", "l", "m",
            "n", "o", "p", "q", "r", "s", "t", "u", "v", "w", "x", "y", "z",
            "A", "B", "C", "D", "E", "F", "G", "H", "I", "J", "K", "L", "M",
            "N", "O", "P", "Q", "R", "S", "T", "U", "V", "W", "X", "Y", "Z"}

\* [0-9A-Za-z-], the identifier characters of SEMVER_REGEX
IdentChars == Digits \cup Letters \cup {"-"}

DigitVal(c) ==
    CASE c = "0" -> 0 [] c = "1" -> 1 [] c = "2" -> 2 [] c = "3" -> 3
      [] c = "4" -> 4 [] c = "5" -> 5 [] c = "6" -> 6 [] c = "7" -> 7
      [] c = "8" -> 8 [] c = "9" -> 9

\* parseInt(text, 10) on a run of digits
RECURSIVE parseInt(_)
parseInt(s) ==
    IF Len(s) = 0 THEN 0
    ELSE 10 * parseInt(SubSeq(s, 1, Len(s) - 1)) + DigitVal(s[Len(s)])

\* length of the longest run of digits of s that starts at position i (greedy \d+)
RECURSIVE DigitRun(_, _)
DigitRun(s, i) ==
    IF i <= Len(s) /\ s[i] \in Digits THEN 1 + DigitRun(s, i + 1) ELSE 0

\* String.prototype.startsWith
startsWith(s, prefix) ==
    /\ Len(s) >= Len(prefix)
    /\ SubSeq(s, 1, Len(prefix)) = prefix

\* String.prototype.slice(n)
slice(s, n) == IF n >= Len(s) THEN <<>> ELSE SubSeq(s, n + 1, Len(s))

\* position of the first occurrence of c in s, 0 when there is none
RECURSIVE IndexOf(_, _, _)
IndexOf(s, c, i) ==
    IF i > Len(s) THEN 0 ELSE IF s[i] = c THEN i ELSE IndexOf(s, c, i + 1)

\* [0-9A-Za-z-]+(?:\.[0-9A-Za-z-]+)* matched against the whole of t
DottedIdents(t) ==
    /\ Len(t) > 0
    /\ \A i \in 1..Len(t) : t[i] \in IdentChars \cup {"."}
    /\ t[1] # "." /\ t[Len(t)] # "."
    /\ \A i \in 1..(Len(t) - 1) : ~(t[i] = "." /\ t[i + 1] = ".")

\* a SEMVER_REGEX that takes no pre-release or build suffix
SemverSuffixRejected(t) == Len(t) = 0

\* (?:-pre)?(?:\+build)?$ matched against the text after the third number
SemverSuffix(t) ==
    \/ Len(t) = 0
    \/ /\ Len(t) > 0 /\ t[1] = "-"
       /\ LET plus == IndexOf(t, "+", 1) IN
            IF plus = 0 THEN DottedIdents(slice(t, 1))
            ELSE /\ DottedIdents(SubSeq(t, 2, plus - 1))
                 /\ DottedIdents(slice(t, plus))
    \/ /\ Len(t) > 0 /\ t[1] = "+"
       /\ DottedIdents(slice(t, 1))

(***************************************************************************)
(* VersionChecker                                                          *)
(***************************************************************************)
\* a call that returned x, and a call that threw
Ret(x) == [threw |-> FALSE, val |-> x]
Threw(dflt) == [threw |-> TRUE, val |-> dflt]

\* SEMVER_REGEX with the lengths n1, n2, n3 of its three \d+ groups chosen:
\* the captured numbers, or no match
SemverGroups(s, n1, n2, n3) ==
    LET p2 == n1 + 2
        p3 == n1 + n2 + 3
    IN  IF /\ n1 > 0 /\ Len(s) >= n1 + 1 /\ s[n1 + 1] = "."
           /\ n2 > 0 /\ Len(s) >= p2 + n2 /\ s[p2 + n2] = "."
           /\ n3 > 0
           /\ SemverSuffix(slice(s, p3 + n3 - 1))
        THEN [match |-> TRUE,
              groups |-> <<SubSeq(s, 1, n1), SubSeq(s, p2, p2 + n2 - 1),
                           SubSeq(s, p3, p3 + n3 - 1)>>]
        ELSE [match |-> FALSE, groups |-> <<>>]

\* version.match(SEMVER_REGEX): each \d+ is greedy, and what follows it (a dot,
\* a suffix or the end) is no digit, so the greedy lengths are the only match
SEMVER_REGEX(s) ==
    SemverGroups(s, DigitRun(s, 1),
                 DigitRun(s, DigitRun(s, 1) + 2),
                 DigitRun(s, DigitRun(s, 1) + DigitRun(s, DigitRun(s, 1) + 2) + 3))

parseVersion(version) ==
    LET m == SEMVER_REGEX(version) IN
        IF ~m.match THEN Threw(<<0, 0, 0>>)
        ELSE Ret(<<parseInt(m.groups[1]), parseInt(m.groups[2]), parseInt(m.groups[3])>>)

\* the loop of compareVersions over i = 0, 1, 2
RECURSIVE CompareFrom(_, _, _)
CompareFrom(v1, v2, i) ==
    IF i > 3 THEN 0
    ELSE IF v1[i] > v2[i] THEN 1
    ELSE IF v1[i] < v2[i] THEN -1
    ELSE CompareFrom(v1, v2, i + 1)

compareVersions(version1, version2) ==
    LET v1 == parseVersion(version1)
        v2 == parseVersion(version2)
    IN  IF v1.threw \/ v2.threw THEN Threw(0)
        ELSE Ret(CompareFrom(v1.val, v2.val, 1))

\* a caret range that does not compare the majors
satisfiesCaretRangeAnyMajor(version, rangeVersion) ==
    LET v == parseVersion(version)
        r == parseVersion(rangeVersion)
        c == compareVersions(version, rangeVersion)
    IN  IF v.threw \/ r.threw THEN Threw(FALSE) ELSE Ret(c.val >= 0)

satisfiesCaretRange(version, rangeVersion) ==
    LET v == parseVersion(version)
        r == parseVersion(rangeVersion)
        c == compareVersions(version, rangeVersion)
    IN  IF v.threw \/ r.threw THEN Threw(FALSE)
        ELSE IF r.val[1] = 0
             THEN Ret(v.val[1] = 0 /\ c.val >= 0)
             ELSE Ret(v.val[1] = r.val[1] /\ c.val >= 0)

\* a tilde range that does not compare the minors
satisfiesTildeRangeAnyMinor(version, rangeVersion) ==
    LET v == parseVersion(version)
        r == parseVersion(rangeVersion)
        c == compareVersions(version, rangeVersion)
    IN  IF v.threw \/ r.threw THEN Threw(FALSE)
        ELSE Ret(v.val[1] = r.val[1] /\ c.val >= 0)

satisfiesTildeRange(version, rangeVersion) ==
    LET v == parseVersion(version)
        r == parseVersion(rangeVersion)
        c == compareVersions(version, rangeVersion)
    IN  IF v.threw \/ r.threw THEN Threw(FALSE)
        ELSE Ret(v.val[1] = r.val[1] /\ v.val[2] = r.val[2] /\ c.val >= 0)

\* the body of the try block of satisfiesVersion
Lift(c, ok) == IF c.threw THEN Threw(FALSE) ELSE Ret(ok)

\* a satisfiesVersion that tests '>' and '<' before '>=' and '<='
SatisfiesTryShortPrefixFirst(version, range) ==
    LET c1 == compareVersions(version, slice(range, 1))
        c2 == compareVersions(version, slice(range, 2))
        c0 == compareVersions(version, range)
    IN  IF startsWith(range, <<">">>) THEN Lift(c1, c1.val > 0)
        ELSE IF startsWith(range, <<">", "=">>) THEN Lift(c2, c2.val >= 0)
        ELSE IF startsWith(range, <<"<">>) THEN Lift(c1, c1.val < 0)
        ELSE IF startsWith(range, <<"<", "=">>) THEN Lift(c2, c2.val <= 0)
        ELSE IF startsWith(range, <<"^">>) THEN satisfiesCaretRange(version, slice(range, 1))
        ELSE IF startsWith(range, <<"~">>) THEN satisfiesTildeRange(version, slice(range, 1))
        ELSE Lift(c0, c0.val = 0)

SatisfiesTry(version, range) ==
    LET c1 == compareVersions(version, slice(range, 1))
        c2 == compareVersions(version, slice(range, 2))
        c0 == compareVersions(version, range)
    IN  IF startsWith(range, <<">", "=">>) THEN Lift(c2, c2.val >= 0)
        ELSE IF startsWith(range, <<">">>) THEN Lift(c1, c1.val > 0)
        ELSE IF startsWith(range, <<"<", "=">>) THEN Lift(c2, c2.val <= 0)
        ELSE IF startsWith(range, <<"<">>) THEN Lift(c1, c1.val < 0)
        ELSE IF startsWith(range, <<"^">>) THEN satisfiesCaretRange(version, slice(range, 1))
        ELSE IF startsWith(range, <<"~">>) THEN satisfiesTildeRange(version, slice(range, 1))
        ELSE Lift(c0, c0.val = 0)

\* a satisfiesVersion whose catch block rethrows
SatisfiesRethrows(r) == r

\* catch (error) { console.warn(...); return false }
SatisfiesCatch(r) == IF r.threw THEN Ret(FALSE) ELSE r

\* satisfiesVersion as a call: what it returned, or that it threw
SatisfiesVersionCall(version, range) == SatisfiesCatch(SatisfiesTry(version, range))

\* try { ... } catch { return false }
satisfiesVersion(version, range) == SatisfiesVersionCall(version, range).val

\* VersionChecker.isCapabilityAvailable: warns on unknown names, returns true
VersionCheckerKnownCapabilitiesOnly(capability) ==
    capability \in {"import", "export", "sync", "oauth", "webhook", "api", "custom"}

VersionCheckerIsCapabilityAvailable(capability) == TRUE

\* VersionChecker.checkRequiredCapabilities
checkRequiredCapabilities(plugin) ==
    SelectSeq(plugin.requiredCapabilities,
              LAMBDA c : ~VersionCheckerIsCapabilityAvailable(c))

\* VersionChecker.checkCompatibility (the fields the registry reads)
VersionCheckerCheckCompatibility(plugin, hostVersion) ==
    [pluginId |-> plugin.id,
     compatible |-> satisfiesVersion(hostVersion, plugin.requiredLifeOSVersion),
     lifeOSVersion |-> hostVersion,
     requiredVersion |-> plugin.requiredLifeOSVersion,
     missingCapabilities |-> checkRequiredCapabilities(plugin)]

\* ^\d+\.\d+\.\d+$ with the lengths of its three \d+ groups chosen
TripleOnly(t, n1, n2, n3) ==
    /\ n1 > 0 /\ Len(t) >= n1 + 1 /\ t[n1 + 1] = "."
    /\ n2 > 0 /\ Len(t) >= n1 + n2 + 2 /\ t[n1 + n2 + 2] = "."
    /\ n3 > 0 /\ Len(t) = n1 + n2 + n3 + 2

\* t.match(/^\d+\.\d+\.\d+$/)
PlainTriple(t) ==
    TripleOnly(t, DigitRun(t, 1),
               DigitRun(t, DigitRun(t, 1) + 2),
               DigitRun(t, DigitRun(t, 1) + DigitRun(t, DigitRun(t, 1) + 2) + 3))

\* VersionChecker.isVersionOld; currentYear is new Date().getFullYear()
isVersionOld(version, currentYear) ==
    LET v == parseVersion(version) IN
        IF v.threw THEN FALSE ELSE v.val[1] < currentYear - 2023

\* VersionChecker.isVersionRestrictive: an exact version or a tilde range
isVersionRestrictive(requiredVersion) ==
    \/ PlainTriple(requiredVersion)
    \/ /\ Len(requiredVersion) > 0 /\ requiredVersion[1] = "~"
       /\ PlainTriple(slice(requiredVersion, 1))

\* VersionChecker.generateWarnings; a message is modelled by its template
generateWarnings(plugin, currentYear) ==
    (IF isVersionOld(plugin.version, currentYear) THEN <<"versionOld">> ELSE <<>>)
    \o (IF isVersionRestrictive(plugin.requiredLifeOSVersion)
        THEN <<"restrictiveRequirement">> ELSE <<>>)

\* VersionChecker.generateRecommendations; a message is modelled by its template
generateRecommendations(plugin, compatible, currentYear) ==
    (IF ~compatible THEN <<"updateLifeOS", "contactAuthor">> ELSE <<>>)
    \o (IF Len(plugin.requiredCapabilities) > 0
        THEN <<"ensureCapabilities">> ELSE <<>>)
    \o (IF isVersionOld(plugin.version, currentYear) THEN <<"updatePlugin">> ELSE <<>>)

\* VersionChecker.checkCompatibility: the whole PluginCompatibility it returns
PluginCompatibility(plugin, hostVersion, currentYear) ==
    [pluginId |-> plugin.id,
     compatible |-> satisfiesVersion(hostVersion, plugin.requiredLifeOSVersion),
     lifeOSVersion |-> hostVersion,
     requiredVersion |-> plugin.requiredLifeOSVersion,
     missingCapabilities |-> checkRequiredCapabilities(plugin),
     warnings |-> generateWarnings(plugin, currentYear),
     recommendations |->
        generateRecommendations(plugin,
            satisfiesVersion(hostVersion, plugin.requiredLifeOSVersion), currentYear)]

(***************************************************************************)
(* Plugins handed to the registry                                          *)
(***************************************************************************)
\* PluginCapabilityType, the closed enumeration of the interfaces
AllCapabilities ==
    {"import", "export", "sync", "oauth", "webhook", "api", "custom",
     "music-tracking", "mood-analysis", "playlist-creation", "real-time-sync",
     "offline-caching", "audio-analysis", "recommendations",
     "life-timeline", "event-correlation", "mood-tracking", "focus-tracking",
     "social-integration", "data-visualization"}

Cap(t) == [type |-> t]

\* host versions the registry is configured with
V100 == <<"1", ".", "0", ".", "0">>
V210 == <<"2", ".", "1", ".", "0">>
HostVersions == {V100, V210}

\* The plugin objects external code constructs.  PluginA and PluginA2 are two
\* objects with the same id and different capability lists.
PluginA ==
    [name |-> "A", id |-> "a", version |-> V100,
     requiredLifeOSVersion |-> <<">", "=">> \o V100,
     requiredCapabilities |-> <<"sync">>,
     capabilities |-> <<Cap("import"), Cap("sync")>>,
     hooks |-> {"onEventCreated", "onEventUpdated", "onEventDeleted"},
     hasSync |-> TRUE]

PluginA2 ==
    [name |-> "A2", id |-> "a", version |-> V210,
     requiredLifeOSVersion |-> <<"~">> \o V210,
     requiredCapabilities |-> <<>>,
     capabilities |-> <<Cap("export")>>,
     hooks |-> {"onEventCreated"},
     hasSync |-> FALSE]

PluginB ==
    [name |-> "B", id |-> "b", version |-> V100,
     requiredLifeOSVersion |-> <<"^">> \o V100,
     requiredCapabilities |-> <<"telepathy">>,
     capabilities |-> <<Cap("sync"), Cap("import")>>,
     hooks |-> {"onEventUpdated", "onEventDeleted"},
     hasSync |-> TRUE]

PluginC ==
    [name |-> "C", id |-> "c", version |-> V210,
     requiredLifeOSVersion |-> V100,
     requiredCapabilities |-> <<>>,
     capabilities |-> <<Cap("oauth"), Cap("sync"), Cap("oauth")>>,
     hooks |-> {"onEventCreated"},
     hasSync |-> FALSE]

PluginObjects == {PluginA, PluginA2, PluginB, PluginC}
PluginNames == {p.name : p \in PluginObjects}
PluginIds == {p.id : p \in PluginObjects}

(***************************************************************************)
(* Map<string, LifeOSPlugin>: a sequence of plugins with distinct ids, in   *)
(* insertion order                                                         *)
(***************************************************************************)
MapHas(P, id) == \E i \in 1..Len(P) : P[i].id = id

MapGet(P, id) == P[CHOOSE i \in 1..Len(P) : P[i].id = id]

\* Map.set: an existing key keeps its position, a new key goes last
MapSet(P, plugin) ==
    IF MapHas(P, plugin.id)
    THEN [i \in 1..Len(P) |-> IF P[i].id = plugin.id THEN plugin ELSE P[i]]
    ELSE Append(P, plugin)

MapDelete(P, id) == SelectSeq(P, LAMBDA p : p.id # id)

MapIds(P) == {P[i].id : i \in 1..Len(P)}

(***************************************************************************)
(* PluginRegistry                                                          *)
(***************************************************************************)
initializeCapabilityIndex == [c \in AllCapabilities |-> {}]

DeclaredTypes(plugin) ==
    {plugin.capabilities[i].type : i \in 1..Len(plugin.capabilities)}

\* forEach capability: the bucket, when there is one, gains plugin.id
indexPluginCapabilities(I, plugin) ==
    [c \in DOMAIN I |->
        IF c \in DeclaredTypes(plugin) THEN I[c] \cup {plugin.id} ELSE I[c]]

\* forEach capability: the bucket, when there is one, loses plugin.id
removePluginFromCapabilityIndex(I, plugin) ==
    [c \in DOMAIN I |->
        IF c \in DeclaredTypes(plugin) THEN I[c] \ {plugin.id} ELSE I[c]]

\* PluginRegistry.isCapabilityAvailable: warns on unknown names, returns true
isCapabilityAvailable(capability) == TRUE

validateCapabilityDependencies(plugin) ==
    \/ Len(plugin.requiredCapabilities) = 0
    \/ \A i \in 1..Len(plugin.requiredCapabilities) :
          isCapabilityAvailable(plugin.requiredCapabilities[i])

checkCompatibility(plugin) ==
    VersionCheckerCheckCompatibility(plugin, currentLifeOSVersion)

\* a register that stores the plugin before it checks compatibility
RegisterStoresBeforeCheck(P, I, host, plugin) ==
    [threw |-> ~VersionCheckerCheckCompatibility(plugin, host).compatible,
     plugins |-> MapSet(P, plugin),
     index |-> indexPluginCapabilities(I, plugin)]

\* a register that checks against the version the registry was constructed with
RegisterAgainstConstructedVersion(P, I, host, plugin) ==
    IF ~VersionCheckerCheckCompatibility(plugin, <<"1", ".", "0", ".", "0">>).compatible
    THEN [threw |-> TRUE, plugins |-> P, index |-> I]
    ELSE [threw |-> FALSE,
          plugins |-> MapSet(P, plugin),
          index |-> indexPluginCapabilities(I, plugin),
          warned |-> ~validateCapabilityDependencies(plugin)]

\* register, as a function of the registry state: what it leaves behind and
\* whether it threw
RegisterResult(P, I, host, plugin) ==
    IF ~VersionCheckerCheckCompatibility(plugin, host).compatible
    THEN [threw |-> TRUE, plugins |-> P, index |-> I]
    ELSE [threw |-> FALSE,
          plugins |-> MapSet(P, plugin),
          index |-> indexPluginCapabilities(I, plugin),
          warned |-> ~validateCapabilityDependencies(plugin)]

\* an unregister that forgets this.plugins.delete(pluginId)
UnregisterKeepsMapEntry(P, I, pluginId) ==
    IF MapHas(P, pluginId)
    THEN [plugins |-> P,
          index |-> removePluginFromCapabilityIndex(I, MapGet(P, pluginId))]
    ELSE [plugins |-> P, index |-> I]

\* an unregister that sweeps an unknown id out of every bucket
UnregisterSweepsBuckets(P, I, pluginId) ==
    IF MapHas(P, pluginId)
    THEN [plugins |-> MapDelete(P, pluginId),
          index |-> removePluginFromCapabilityIndex(I, MapGet(P, pluginId))]
    ELSE [plugins |-> P, index |-> [c \in DOMAIN I |-> I[c] \ {pluginId}]]

\* unregister, as a function of the registry state
UnregisterResult(P, I, pluginId) ==
    IF MapHas(P, pluginId)
    THEN [plugins |-> MapDelete(P, pluginId),
          index |-> removePluginFromCapabilityIndex(I, MapGet(P, pluginId))]
    ELSE [plugins |-> P, index |-> I]

\* a getCompatiblePlugins that filters by the registry's configured version
getCompatiblePluginsForConfiguredVersion(P, host, lifeOSVersion) ==
    SelectSeq(P, LAMBDA p : satisfiesVersion(host, p.requiredLifeOSVersion))

\* getCompatiblePlugins(lifeOSVersion) of a registry that holds the plugins P
\* and is configured with the version host
getCompatiblePlugins(P, host, lifeOSVersion) ==
    SelectSeq(P, LAMBDA p : satisfiesVersion(lifeOSVersion, p.requiredLifeOSVersion))

getPlugin(pluginId) ==
    IF MapHas(plugins, pluginId) THEN {MapGet(plugins, pluginId)} ELSE {}

getAllPlugins == plugins

\* ids of the bucket, dereferenced, the missing ones filtered out
PluginsByCapability(P, I, capability) ==
    IF capability \notin DOMAIN I THEN {}
    ELSE {MapGet(P, id) : id \in {x \in I[capability] : MapHas(P, x)}}

getPluginsByCapability(capability) ==
    PluginsByCapability(plugins, capabilityIndex, capability)

\* this.capabilityIndex.get(cap): the bucket, or undefined
IndexGet(I, cap) ==
    IF cap \in DOMAIN I THEN [defined |-> TRUE, ids |-> I[cap]]
    ELSE [defined |-> FALSE]

\* the reducer: an undefined side yields the other side, two buckets their
\* intersection
CommonOf(common, current) ==
    IF ~common.defined THEN current
    ELSE IF ~current.defined THEN common
    ELSE [defined |-> TRUE, ids |-> {id \in common.ids : id \in current.ids}]

\* pluginSets.reduce(...) without an initial value: starts from the first
\* element and folds the elements from the second on
RECURSIVE ReduceCommon(_, _, _)
ReduceCommon(pluginSets, k, common) ==
    IF k > Len(pluginSets) THEN common
    ELSE ReduceCommon(pluginSets, k + 1, CommonOf(common, pluginSets[k]))

\* ids dereferenced through the map, the missing ones filtered out
CommonPlugins(P, commonPlugins) ==
    IF ~commonPlugins.defined THEN {}
    ELSE {MapGet(P, id) : id \in {x \in commonPlugins.ids : MapHas(P, x)}}

\* getPluginsByMultipleCapabilities(capabilities) of a registry that holds the
\* plugins P and the index I
PluginsByMultipleCapabilities(P, I, capabilities) ==
    IF Len(capabilities) = 0 THEN {}
    ELSE CommonPlugins(P,
             ReduceCommon([k \in 1..Len(capabilities) |-> IndexGet(I, capabilities[k])],
                          2, IndexGet(I, capabilities[1])))

getPluginsByMultipleCapabilities(capabilities) ==
    PluginsByMultipleCapabilities(plugins, capabilityIndex, capabilities)

\* getStats().capabilityStats
getStats ==
    [totalPlugins |-> Len(plugins),
     totalCapabilities |-> Cardinality(DOMAIN capabilityIndex),
     capabilityStats |-> [c \in DOMAIN capabilityIndex |->
                              Cardinality(capabilityIndex[c])],
     lifeOSVersion |-> currentLifeOSVersion]

(***************************************************************************)
(* Registry operations                                                     *)
(***************************************************************************)
\* no Manager pass in progress
IdlePass ==
    [kind |-> "none", pc |-> "idle", event |-> "", snapshot |-> <<>>, i |-> 0,
     calls |-> <<>>, results |-> <<>>, resultOf |-> <<>>, status |-> <<>>,
     env |-> 0, error |-> "", inflight |-> {}]

\* calls from outside the pass that run while the pass is suspended in an await
MaxEnvStepsInPass == 1

EnvAllowed == pass.pc = "idle" \/ (pass.pc \notin {"done", "rejected"} /\ pass.env < MaxEnvStepsInPass)

EnvStep == IF pass.pc = "idle" THEN pass ELSE [pass EXCEPT !.env = @ + 1]

\* registry.register(plugin); observed: whether lastOp records the call
RegisterCall(plugin, observed) ==
    LET r == RegisterResult(plugins, capabilityIndex, currentLifeOSVersion, plugin) IN
        /\ EnvAllowed
        /\ plugins' = r.plugins
        /\ capabilityIndex' = r.index
        /\ lastOp' = IF observed
                     THEN [op |-> "register", id |-> plugin.id, name |-> plugin.name,
                           threw |-> r.threw]
                     ELSE lastOp
        /\ pass' = EnvStep
        /\ UNCHANGED <<oauth, marketplace, manager, probe, currentLifeOSVersion, settings>>

Register(plugin) == RegisterCall(plugin, TRUE)

\* registry.unregister(pluginId); observed: whether lastOp records the call
UnregisterCall(pluginId, observed) ==
    LET r == UnregisterResult(plugins, capabilityIndex, pluginId) IN
        /\ EnvAllowed
        /\ plugins' = r.plugins
        /\ capabilityIndex' = r.index
        /\ lastOp' = IF observed
                     THEN [op |-> "unregister", id |-> pluginId, name |-> "",
                           threw |-> FALSE]
                     ELSE lastOp
        /\ pass' = EnvStep
        /\ UNCHANGED <<oauth, marketplace, manager, probe, currentLifeOSVersion, settings>>

Unregister(pluginId) == UnregisterCall(pluginId, TRUE)

\* registry.updateLifeOSVersion(version); observed: whether lastOp records the call
UpdateLifeOSVersionCall(version, observed) ==
    /\ EnvAllowed
    /\ currentLifeOSVersion' = version
    /\ lastOp' = IF observed
                 THEN [op |-> "updateLifeOSVersion", id |-> "", name |-> "",
                       threw |-> FALSE]
                 ELSE lastOp
    /\ pass' = EnvStep
    /\ UNCHANGED <<oauth, marketplace, manager, probe, plugins, capabilityIndex, settings>>

UpdateLifeOSVersion(version) == UpdateLifeOSVersionCall(version, TRUE)

RegistryDestroy ==
    /\ EnvAllowed
    /\ plugins' = <<>>
    /\ capabilityIndex' = << >>
    /\ lastOp' = [op |-> "destroy", id |-> "", name |-> "", threw |-> FALSE]
    /\ pass' = EnvStep
    /\ UNCHANGED <<oauth, marketplace, manager, probe, currentLifeOSVersion, settings>>

NoProbe == [fn |-> "none", in |-> <<>>, out |-> <<>>]

\* the plugin ids OAuth flows are started and called back for
OAuthPlugins == {"a", "b"}

\* this.activeFlows.get(pluginId) of a plugin without a flow
NoFlow == [active |-> FALSE]

\* this.tokenStorage.get(pluginId) of a plugin without tokens
NoTokens == [stored |-> FALSE]

\* OAuthService.getInstance() the first time: both maps empty; now is the
\* clock Date.now() reads, in minutes; nonces counts the states generated
OAuthConstructed ==
    [activeFlows |-> [id \in OAuthPlugins |-> NoFlow],
     tokenStorage |-> [id \in OAuthPlugins |-> NoTokens],
     now |-> 0, nonces |-> 0, callbacks |-> <<>>]

\* ids of mockPlugins callers install, and an id the catalog does not list
Catalog == {"spotify-integration"}

MarketIds == Catalog \cup {"not-listed"}

\* this.installedPlugins.get(pluginId) of a plugin that is not installed
NotInstalled == [installed |-> FALSE]

\* new MarketplaceService() with nothing in storage: no plugin installed
MarketplaceConstructed ==
    [installedPlugins |-> [id \in MarketIds |-> NotInstalled],
     saved |-> [id \in MarketIds |-> NotInstalled],
     calls |-> <<>>]

\* new PluginManager(): startAutoSync() has set the interval timer; no tick has
\* fired and destroy() has not been called
ManagerConstructed ==
    [syncInterval |-> "set", destroyed |-> FALSE, ticks |-> 0,
     autoSync |-> <<>>, destroyCalls |-> <<>>]

\* new PluginRegistry() as the Manager constructs it; every plugin object starts
\* with its own settings, here disabled as ObsidianPlugin does
Init ==
    /\ plugins = <<>>
    /\ capabilityIndex = initializeCapabilityIndex
    /\ currentLifeOSVersion = V100
    /\ settings = [n \in PluginNames |-> [enabled |-> FALSE]]
    /\ pass = IdlePass
    /\ lastOp = [op |-> "new", id |-> "", name |-> "", threw |-> FALSE]
    /\ probe = NoProbe
    /\ manager = ManagerConstructed
    /\ oauth = OAuthConstructed
    /\ marketplace = MarketplaceConstructed

RegistryNext ==
    \/ \E p \in PluginObjects : Register(p)
    \/ \E id \in PluginIds : Unregister(id)
    \/ \E v \in HostVersions : UpdateLifeOSVersion(v)
    \/ RegistryDestroy

SpecRegistry == Init /\ [][RegistryNext]_vars

(***************************************************************************)
(* PluginManager: enablePlugin / disablePlugin                             *)
(***************************************************************************)
\* an enablePlugin / disablePlugin that flips a flag of its own and never
\* writes the plugin's settings back
SetEnabledResultDropsWrite(P, S, pluginId, value, outcome) ==
    IF ~MapHas(P, pluginId) THEN [threw |-> TRUE, settings |-> S]
    ELSE IF outcome # "ok" THEN [threw |-> TRUE, settings |-> S]
    ELSE [threw |-> FALSE, settings |-> S]

\* getSettings() then updateSettings({...settings, enabled}); an unknown id
\* rejects before any call, and either call of the plugin may reject
\* (outcome: "ok", "getSettingsThrew", "updateSettingsThrew")
SetEnabledResult(P, S, pluginId, value, outcome) ==
    IF ~MapHas(P, pluginId) THEN [threw |-> TRUE, settings |-> S]
    ELSE IF outcome # "ok" THEN [threw |-> TRUE, settings |-> S]
    ELSE [threw |-> FALSE,
          settings |-> [S EXCEPT ![MapGet(P, pluginId).name].enabled = value]]

SetEnabledOutcomes == {"ok", "getSettingsThrew", "updateSettingsThrew"}

EnablePlugin(pluginId, outcome) ==
    /\ EnvAllowed
    /\ settings' = SetEnabledResult(plugins, settings, pluginId, TRUE, outcome).settings
    /\ pass' = EnvStep
    /\ UNCHANGED <<oauth, marketplace, manager, probe, plugins, capabilityIndex, currentLifeOSVersion, lastOp>>

DisablePlugin(pluginId, outcome) ==
    /\ EnvAllowed
    /\ settings' = SetEnabledResult(plugins, settings, pluginId, FALSE, outcome).settings
    /\ pass' = EnvStep
    /\ UNCHANGED <<oauth, marketplace, manager, probe, plugins, capabilityIndex, currentLifeOSVersion, lastOp>>

(***************************************************************************)
(* PluginManager passes: one loop over a snapshot of the registered        *)
(* plugins, suspended at every await                                       *)
(***************************************************************************)
EventTypes == {"created", "updated", "deleted", "archived"}

\* a plugin call the pass has started and not yet seen settle: the position
\* of the plugin in the snapshot and the method
InFlight(k, method) == [k |-> k, method |-> method]

\* a pass that starts getSettings() on every plugin at once (Promise.all)
StartPassFanOut(kind, event, snapshot) ==
    [kind |-> kind, pc |-> "getSettings", event |-> event, snapshot |-> snapshot,
     i |-> 1, calls |-> <<>>, results |-> <<>>, resultOf |-> <<>>,
     status |-> <<>>, env |-> 0, error |-> "",
     inflight |-> {InFlight(k, "getSettings") : k \in 1..Len(snapshot)}]

\* const plugins = this.registry.getAllPlugins(); then the for loop is entered
\* and, when there is a plugin, the first getSettings() is awaited
StartPass(kind, event, snapshot) ==
    [kind |-> kind, pc |-> "getSettings", event |-> event, snapshot |-> snapshot,
     i |-> 1, calls |-> <<>>, results |-> <<>>, resultOf |-> <<>>,
     status |-> <<>>, env |-> 0, error |-> "",
     inflight |-> IF Len(snapshot) = 0 THEN {} ELSE {InFlight(1, "getSettings")}]

\* the awaited call on the current plugin has settled
Settle(p, method) == [p EXCEPT !.inflight = @ \ {InFlight(p.i, method)}]

\* the loop body is entered for the next plugin: its getSettings() is awaited
AwaitNextSettings(p) ==
    [p EXCEPT !.i = @ + 1, !.pc = "getSettings",
              !.inflight = @ \cup {InFlight(p.i + 1, "getSettings")}]

Call(plugin, method, outcome) ==
    [name |-> plugin.name, method |-> method, outcome |-> outcome]

\* a loop that reads position i of the registry's live list of plugins
CurrentLive(p) == IF p.i <= Len(plugins) THEN plugins[p.i] ELSE p.snapshot[p.i]

\* the plugin whose turn it is: position i of the array getAllPlugins() returned
Current(p) == p.snapshot[p.i]

\* a dispatch that calls the first hook the plugin implements, whatever the type
HookToCallFirstImplemented(type, plugin) ==
    IF "onEventCreated" \in plugin.hooks THEN "onEventCreated"
    ELSE IF "onEventUpdated" \in plugin.hooks THEN "onEventUpdated"
    ELSE IF "onEventDeleted" \in plugin.hooks THEN "onEventDeleted"
    ELSE "none"

\* what routeEvent passes to the hook: event, or event.id to onEventDeleted
HookArgument(hook) == IF hook = "onEventDeleted" THEN "event.id" ELSE "event"

\* a hook call of routeEvent in the call log, with its argument
HookCall(plugin, hook, outcome) ==
    [name |-> plugin.name, method |-> hook, outcome |-> outcome,
     arg |-> HookArgument(hook)]

\* the if / else-if chain of routeEvent: the hook to await, or none
HookToCall(type, plugin) ==
    IF type = "created" /\ "onEventCreated" \in plugin.hooks THEN "onEventCreated"
    ELSE IF type = "updated" /\ "onEventUpdated" \in plugin.hooks THEN "onEventUpdated"
    ELSE IF type = "deleted" /\ "onEventDeleted" \in plugin.hooks THEN "onEventDeleted"
    ELSE "none"

\* ---- routeEvent ----
\* the loop moves to the next plugin, or routeEvent resolves
RouteNextPlugin(p) ==
    IF p.i < Len(p.snapshot)
    THEN AwaitNextSettings(p)
    ELSE [p EXCEPT !.i = @ + 1, !.pc = "done"]

\* a routeEvent whose loop has no try/catch around the plugin calls
RouteRethrows(p) == [p EXCEPT !.pc = "rejected"]

\* catch (error) { console.error(...) }: the loop goes on
RouteCatch(p) == RouteNextPlugin(p)

\* a routeEvent that does not test settings.enabled
RouteIgnoresEnabled(p, s) ==
    LET plugin == Current(p)
        logged == [Settle(p, "getSettings") EXCEPT
                      !.calls = Append(@, Call(plugin, "getSettings",
                        IF s.enabled THEN "enabled" ELSE "disabled"))]
    IN  IF HookToCall(p.event, plugin) # "none"
        THEN [logged EXCEPT !.pc = "hook",
                            !.inflight = @ \cup {InFlight(p.i, HookToCall(p.event, plugin))}]
        ELSE RouteNextPlugin(logged)

\* getSettings() resolved with s
RouteSettled(p, s) ==
    LET plugin == Current(p)
        logged == [Settle(p, "getSettings") EXCEPT
                      !.calls = Append(@, Call(plugin, "getSettings",
                        IF s.enabled THEN "enabled" ELSE "disabled"))]
    IN  IF s.enabled /\ HookToCall(p.event, plugin) # "none"
        THEN [logged EXCEPT !.pc = "hook",
                            !.inflight = @ \cup {InFlight(p.i, HookToCall(p.event, plugin))}]
        ELSE RouteNextPlugin(logged)

RouteEventStart(type) ==
    /\ pass.pc = "idle"
    /\ pass' = IF Len(getAllPlugins) = 0
               THEN [StartPass("routeEvent", type, getAllPlugins) EXCEPT !.pc = "done"]
               ELSE StartPass("routeEvent", type, getAllPlugins)
    /\ UNCHANGED <<oauth, marketplace, manager, probe, plugins, capabilityIndex, currentLifeOSVersion, settings, lastOp>>

RouteGetSettings(throws) ==
    /\ pass.kind = "routeEvent" /\ pass.pc = "getSettings"
    /\ pass' = IF throws
               THEN RouteCatch([Settle(pass, "getSettings") EXCEPT !.calls =
                        Append(@, Call(Current(pass), "getSettings", "threw"))])
               ELSE RouteSettled(pass, settings[Current(pass).name])
    /\ UNCHANGED <<oauth, marketplace, manager, probe, plugins, capabilityIndex, currentLifeOSVersion, settings, lastOp>>

RouteHook(throws) ==
    /\ pass.kind = "routeEvent" /\ pass.pc = "hook"
    /\ LET hook == HookToCall(pass.event, Current(pass))
           logged == [Settle(pass, hook) EXCEPT
                         !.calls = Append(@, HookCall(Current(pass), hook,
                          IF throws THEN "threw" ELSE "ok"))]
       IN  pass' = IF throws THEN RouteCatch(logged)
                   ELSE RouteNextPlugin(logged)
    /\ UNCHANGED <<oauth, marketplace, manager, probe, plugins, capabilityIndex, currentLifeOSVersion, settings, lastOp>>

\* ---- performSystemSync ----
\* what a plugin's sync() resolves with; metadata names the plugin it came from
SyncReturn(plugin) ==
    [success |-> TRUE, eventsImported |-> 3, eventsExported |-> 2,
     errors |-> <<>>, metadata |-> <<plugin.name>>]

\* error instanceof Error ? error.message : 'Unknown error'
ErrorMessage(thrown) == IF thrown = "Error" THEN "plugin failure" ELSE "Unknown error"

\* the result the catch block pushes (no metadata)
SyncFailure(thrown) ==
    [success |-> FALSE, eventsImported |-> 0, eventsExported |-> 0,
     errors |-> <<ErrorMessage(thrown)>>, metadata |-> <<>>]

SyncNextPlugin(p) ==
    IF p.i < Len(p.snapshot)
    THEN AwaitNextSettings(p)
    ELSE [p EXCEPT !.i = @ + 1, !.pc = "done"]

SyncPush(p, result) ==
    [p EXCEPT !.results = Append(@, result), !.resultOf = Append(@, p.i)]

\* a performSystemSync whose catch block rethrows
SyncRethrows(p, thrown) == [p EXCEPT !.pc = "rejected"]

\* catch (error) { results.push({success: false, ...}) }: the loop goes on
SyncCatch(p, thrown) == SyncNextPlugin(SyncPush(p, SyncFailure(thrown)))

\* a performSystemSync that does not test settings.enabled
SyncIgnoresEnabled(p, s) ==
    LET plugin == Current(p)
        logged == [Settle(p, "getSettings") EXCEPT
                      !.calls = Append(@, Call(plugin, "getSettings",
                        IF s.enabled THEN "enabled" ELSE "disabled"))]
    IN  IF plugin.hasSync
        THEN [logged EXCEPT !.pc = "sync",
                            !.inflight = @ \cup {InFlight(p.i, "sync")}]
        ELSE SyncNextPlugin(logged)

\* a performSystemSync that calls sync() and goes on without awaiting it
SyncSettledAbandonsSync(p, s) ==
    LET plugin == Current(p)
        logged == [Settle(p, "getSettings") EXCEPT
                      !.calls = Append(@, Call(plugin, "getSettings",
                        IF s.enabled THEN "enabled" ELSE "disabled"))]
    IN  IF s.enabled /\ plugin.hasSync
        THEN SyncNextPlugin([logged EXCEPT !.inflight = @ \cup {InFlight(p.i, "sync")}])
        ELSE SyncNextPlugin(logged)

\* getSettings() resolved with s
SyncSettled(p, s) ==
    LET plugin == Current(p)
        logged == [Settle(p, "getSettings") EXCEPT
                      !.calls = Append(@, Call(plugin, "getSettings",
                        IF s.enabled THEN "enabled" ELSE "disabled"))]
    IN  IF s.enabled /\ plugin.hasSync
        THEN [logged EXCEPT !.pc = "sync",
                            !.inflight = @ \cup {InFlight(p.i, "sync")}]
        ELSE SyncNextPlugin(logged)

\* sync() resolved: results.push(result)
SyncResolved(p) == SyncNextPlugin(SyncPush(p, SyncReturn(Current(p))))

PerformSystemSyncStart ==
    /\ pass.pc = "idle"
    /\ pass' = IF Len(getAllPlugins) = 0
               THEN [StartPass("performSystemSync", "", getAllPlugins) EXCEPT !.pc = "done"]
               ELSE StartPass("performSystemSync", "", getAllPlugins)
    /\ UNCHANGED <<oauth, marketplace, manager, probe, plugins, capabilityIndex, currentLifeOSVersion, settings, lastOp>>

SyncGetSettings(throws) ==
    /\ pass.kind = "performSystemSync" /\ pass.pc = "getSettings"
    /\ pass' = IF throws
               THEN SyncCatch([Settle(pass, "getSettings") EXCEPT !.calls =
                        Append(@, Call(Current(pass), "getSettings", "threw"))], "Error")
               ELSE SyncSettled(pass, settings[Current(pass).name])
    /\ UNCHANGED <<oauth, marketplace, manager, probe, plugins, capabilityIndex, currentLifeOSVersion, settings, lastOp>>

\* outcome: "ok", or what sync() threw: an Error or some other value
SyncCall(outcome) ==
    /\ pass.kind = "performSystemSync" /\ pass.pc = "sync"
    /\ LET logged == [Settle(pass, "sync") EXCEPT
                         !.calls = Append(@, Call(Current(pass), "sync",
                          IF outcome = "ok" THEN "ok" ELSE "threw"))]
       IN  pass' = IF outcome = "ok" THEN SyncResolved(logged)
                   ELSE SyncCatch(logged, outcome)
    /\ UNCHANGED <<oauth, marketplace, manager, probe, plugins, capabilityIndex, currentLifeOSVersion, settings, lastOp>>

\* ---- getSystemStatus ----
\* pluginStatuses.filter(pred).length
CountStatus(pluginStatuses, st) ==
    Cardinality({k \in 1..Len(pluginStatuses) : pluginStatuses[k].status = st})

\* n / 2 as the number it is: whole part and whether a half is left over
Half(n) == [whole |-> n \div 2, half |-> n % 2 = 1]

\* e < n / 2
LessThanHalf(e, n) == e < Half(n).whole \/ (e = Half(n).whole /\ Half(n).half)

\* e < n / 2 computed with integer division
LessThanHalfTruncated(e, n) == e < n \div 2

\* a determineSystemHealth that truncates totalPlugins / 2
determineSystemHealthTruncated(pluginStatuses) ==
    IF CountStatus(pluginStatuses, "error") = 0 THEN "healthy"
    ELSE IF LessThanHalfTruncated(CountStatus(pluginStatuses, "error"), Len(pluginStatuses))
    THEN "warning"
    ELSE "error"

determineSystemHealth(pluginStatuses) ==
    IF CountStatus(pluginStatuses, "error") = 0 THEN "healthy"
    ELSE IF LessThanHalf(CountStatus(pluginStatuses, "error"), Len(pluginStatuses))
    THEN "warning"
    ELSE "error"

CapabilityTypes(plugin) ==
    [k \in 1..Len(plugin.capabilities) |-> plugin.capabilities[k].type]

\* the entry pushed in the try block
StatusEntry(plugin, s) ==
    [pluginId |-> plugin.id, name |-> plugin.name,
     status |-> IF s.enabled THEN "active" ELSE "inactive",
     errorCount |-> 0, lastError |-> <<>>,
     capabilities |-> CapabilityTypes(plugin)]

\* the entry pushed in the catch block
StatusErrorEntry(plugin, thrown) ==
    [pluginId |-> plugin.id, name |-> plugin.name,
     status |-> "error",
     errorCount |-> 1, lastError |-> <<ErrorMessage(thrown)>>,
     capabilities |-> CapabilityTypes(plugin)]

\* after the loop: the SystemStatus getSystemStatus resolves with
SystemStatus(p) ==
    [systemHealth |-> determineSystemHealth(p.results),
     totalPlugins |-> Len(p.snapshot),
     activePlugins |-> CountStatus(p.results, "active"),
     pluginStatuses |-> p.results,
     platform |-> "premium"]

StatusFinish(p) == [p EXCEPT !.pc = "done", !.status = <<SystemStatus(p)>>]

StatusNextPlugin(p) ==
    IF p.i < Len(p.snapshot)
    THEN AwaitNextSettings(p)
    ELSE StatusFinish([p EXCEPT !.i = @ + 1])

\* a getSystemStatus without the try/catch around getSettings()
StatusRethrows(p, thrown) == [p EXCEPT !.pc = "rejected"]

\* catch (error) { pluginStatuses.push({status: 'error', errorCount: 1, ...}) }
StatusCatch(p, thrown) ==
    StatusNextPlugin(SyncPush(p, StatusErrorEntry(Current(p), thrown)))

StatusSettled(p, s) ==
    StatusNextPlugin(SyncPush(p, StatusEntry(Current(p), s)))

GetSystemStatusStart ==
    /\ pass.pc = "idle"
    /\ pass' = IF Len(getAllPlugins) = 0
               THEN StatusFinish(StartPass("getSystemStatus", "", getAllPlugins))
               ELSE StartPass("getSystemStatus", "", getAllPlugins)
    /\ UNCHANGED <<oauth, marketplace, manager, probe, plugins, capabilityIndex, currentLifeOSVersion, settings, lastOp>>

\* outcome: "ok", or what getSettings() threw: an Error or some other value
StatusGetSettings(outcome) ==
    /\ pass.kind = "getSystemStatus" /\ pass.pc = "getSettings"
    /\ LET logged == [Settle(pass, "getSettings") EXCEPT
                         !.calls = Append(@, Call(Current(pass), "getSettings",
                          IF outcome # "ok" THEN "threw"
                          ELSE IF settings[Current(pass).name].enabled THEN "enabled"
                          ELSE "disabled"))]
       IN  pass' = IF outcome = "ok"
                   THEN StatusSettled(logged, settings[Current(pass).name])
                   ELSE StatusCatch(logged, outcome)
    /\ UNCHANGED <<oauth, marketplace, manager, probe, plugins, capabilityIndex, currentLifeOSVersion, settings, lastOp>>

\* the caller has the pass's promise settled and drops it
PassReturn ==
    /\ pass.pc \in {"done", "rejected"}
    /\ pass' = IdlePass
    /\ UNCHANGED <<oauth, marketplace, manager, probe, plugins, capabilityIndex, currentLifeOSVersion, settings, lastOp>>

CallOutcomes == {"ok", "Error", "value"}

\* The Manager's passes, with the calls host code makes on the registry and on
\* the plugins' enabled state around and during them
Next ==
    \/ \E p \in PluginObjects : RegisterCall(p, FALSE)
    \/ \E id \in PluginIds : UnregisterCall(id, FALSE)
    \/ \E id \in PluginIds : \E outcome \in SetEnabledOutcomes : EnablePlugin(id, outcome)
    \/ \E id \in PluginIds : \E outcome \in SetEnabledOutcomes : DisablePlugin(id, outcome)
    \/ \E type \in EventTypes : RouteEventStart(type)
    \/ \E throws \in BOOLEAN : RouteGetSettings(throws)
    \/ \E throws \in BOOLEAN : RouteHook(throws)
    \/ PerformSystemSyncStart
    \/ \E throws \in BOOLEAN : SyncGetSettings(throws)
    \/ \E outcome \in CallOutcomes : SyncCall(outcome)
    \/ GetSystemStatusStart
    \/ \E outcome \in CallOutcomes : StatusGetSettings(outcome)
    \/ PassReturn

Spec == Init /\ [][Next]_vars

(***************************************************************************)
(* PluginManager: operations addressed to one plugin id                    *)
(***************************************************************************)
LifecycleOps == {"loadPlugin", "unloadPlugin", "reloadPlugin", "startPlugin", "stopPlugin"}

SettingsOps == {"enablePlugin", "disablePlugin"}

\* the plugin method the operation awaits first; reloadPlugin starts with
\* unloadPlugin, the settings operations with getSettings()
FirstCall(op) ==
    IF op \in {"loadPlugin", "startPlugin"} THEN "initialize"
    ELSE IF op \in SettingsOps THEN "settings"
    ELSE "destroy"

\* an operation that returns silently when the registry has no such plugin
LifecycleLookupIgnoresMissing(p, P, pluginId, call) ==
    IF ~MapHas(P, pluginId)
    THEN [p EXCEPT !.pc = "done"]
    ELSE [p EXCEPT !.pc = call, !.snapshot = <<MapGet(P, pluginId)>>, !.i = 1,
                   !.inflight = {InFlight(1, call)}]

\* const plugin = this.registry.getPlugin(pluginId)
\* if (!plugin) throw new Error(`Plugin not found: ...`), rethrown by the catch;
\* otherwise the plugin's method is awaited
LifecycleLookup(p, P, pluginId, call) ==
    IF ~MapHas(P, pluginId)
    THEN [p EXCEPT !.pc = "rejected", !.error = "Plugin not found"]
    ELSE [p EXCEPT !.pc = call, !.snapshot = <<MapGet(P, pluginId)>>, !.i = 1,
                   !.inflight = {InFlight(1, call)}]

\* the operation is called: everything up to its first await
LifecycleStart(op, pluginId) ==
    /\ pass.pc = "idle"
    /\ pass' = LifecycleLookup([IdlePass EXCEPT !.kind = op, !.event = pluginId],
                               plugins, pluginId, FirstCall(op))
    /\ UNCHANGED <<oauth, marketplace, manager, probe, plugins, capabilityIndex, currentLifeOSVersion, settings, lastOp>>

\* catch (error) { console.error(...); throw error }
LifecycleRethrow(p, error) == [p EXCEPT !.pc = "rejected", !.error = error]

\* await plugin.initialize() settles (loadPlugin, startPlugin, the load step of
\* reloadPlugin)
LifecycleInitialize(throws) ==
    /\ pass.kind \in LifecycleOps /\ pass.pc = "initialize"
    /\ LET logged == [Settle(pass, "initialize") EXCEPT
                         !.calls = Append(@, Call(Current(pass), "initialize",
                                          IF throws THEN "threw" ELSE "ok"))]
       IN  pass' = IF throws THEN LifecycleRethrow(logged, "initialize failed")
                   ELSE [logged EXCEPT !.pc = "done"]
    /\ UNCHANGED <<oauth, marketplace, manager, probe, plugins, capabilityIndex, currentLifeOSVersion, settings, lastOp>>

\* every operation that awaits destroy() goes on to unregister the plugin
UnregistersAfterAnyDestroy(op) == op \in {"unloadPlugin", "reloadPlugin", "stopPlugin"}

\* the operations whose body calls this.registry.unregister(pluginId) once
\* destroy() resolved: unloadPlugin, and reloadPlugin which awaits unloadPlugin
UnregistersAfterDestroy(op) == op \in {"unloadPlugin", "reloadPlugin"}

\* await plugin.destroy() settles; unloadPlugin (also as the first step of
\* reloadPlugin) then calls this.registry.unregister(pluginId), stopPlugin does not
LifecycleDestroy(throws) ==
    /\ pass.kind \in LifecycleOps /\ pass.pc = "destroy"
    /\ LET logged == [Settle(pass, "destroy") EXCEPT
                         !.calls = Append(@, Call(Current(pass), "destroy",
                                          IF throws THEN "threw" ELSE "ok"))]
           r == UnregisterResult(plugins, capabilityIndex, pass.event)
       IN  IF throws
           THEN /\ pass' = LifecycleRethrow(logged, "destroy failed")
                /\ UNCHANGED <<oauth, marketplace, plugins, capabilityIndex>>
           ELSE IF ~UnregistersAfterDestroy(pass.kind)
           THEN /\ pass' = [logged EXCEPT !.pc = "done"]
                /\ UNCHANGED <<oauth, marketplace, plugins, capabilityIndex>>
           ELSE /\ pass' = [logged EXCEPT !.pc =
                               IF pass.kind = "reloadPlugin" THEN "load" ELSE "done"]
                /\ plugins' = r.plugins
                /\ capabilityIndex' = r.index
    /\ UNCHANGED <<oauth, marketplace, manager, probe, currentLifeOSVersion, settings, lastOp>>

\* reloadPlugin: unloadPlugin has resolved and loadPlugin(pluginId) is called
ReloadLoad ==
    /\ pass.kind = "reloadPlugin" /\ pass.pc = "load"
    /\ pass' = LifecycleLookup(pass, plugins, pass.event, "initialize")
    /\ UNCHANGED <<oauth, marketplace, manager, probe, plugins, capabilityIndex, currentLifeOSVersion, settings, lastOp>>

\* the plugin calls an enablePlugin / disablePlugin made, by outcome
SetEnabledCalls(p, outcome) ==
    IF outcome = "getSettingsThrew"
    THEN <<Call(Current(p), "getSettings", "threw")>>
    ELSE <<Call(Current(p), "getSettings", "ok"),
           Call(Current(p), "updateSettings",
                IF outcome = "ok" THEN "ok" ELSE "threw")>>

\* enablePlugin / disablePlugin after the lookup: getSettings(), then
\* updateSettings() on the plugin object the lookup returned
LifecycleSetEnabled(outcome) ==
    /\ pass.kind \in SettingsOps /\ pass.pc = "settings"
    /\ LET r == SetEnabledResult(pass.snapshot, settings, pass.event,
                                 pass.kind = "enablePlugin", outcome)
           logged == [Settle(pass, "settings") EXCEPT
                         !.calls = SetEnabledCalls(pass, outcome)]
       IN  /\ settings' = r.settings
           /\ pass' = IF r.threw THEN LifecycleRethrow(logged, outcome)
                      ELSE [logged EXCEPT !.pc = "done"]
    /\ UNCHANGED <<oauth, marketplace, manager, probe, plugins, capabilityIndex, currentLifeOSVersion, lastOp>>

\* the plugin objects host code registers around these operations: two objects
\* with the same id, and one with another id
LifecyclePlugins == {PluginA, PluginA2, PluginB}

\* ids callers address: those of the plugin objects and one no plugin has
AddressedIds == {p.id : p \in LifecyclePlugins} \cup {"missing"}

\* The operations addressed to one plugin, with the registry calls host code
\* makes around and during them
LifecycleNext ==
    \/ \E p \in LifecyclePlugins : RegisterCall(p, FALSE)
    \/ \E id \in AddressedIds : UnregisterCall(id, FALSE)
    \/ \E v \in HostVersions : UpdateLifeOSVersionCall(v, FALSE)
    \/ \E op \in LifecycleOps \cup SettingsOps : \E id \in AddressedIds :
          LifecycleStart(op, id)
    \/ \E throws \in BOOLEAN : LifecycleInitialize(throws)
    \/ \E throws \in BOOLEAN : LifecycleDestroy(throws)
    \/ ReloadLoad
    \/ \E outcome \in SetEnabledOutcomes : LifecycleSetEnabled(outcome)
    \/ PassReturn

SpecLifecycle == Init /\ [][LifecycleNext]_vars

(***************************************************************************)
(* PluginRegistry: discovery queries                                       *)
(***************************************************************************)
V300 == <<"3", ".", "0", ".", "0">>

\* the versions callers ask getCompatiblePlugins about
QueriedVersions == HostVersions \cup {V300}

\* registry.getCompatiblePlugins(lifeOSVersion), its argument and result kept
GetCompatiblePlugins(lifeOSVersion) ==
    /\ probe' = [fn |-> "getCompatiblePlugins", in |-> lifeOSVersion,
                 out |-> getCompatiblePlugins(plugins, currentLifeOSVersion, lifeOSVersion)]
    /\ UNCHANGED <<oauth, marketplace, manager, plugins, capabilityIndex, currentLifeOSVersion, settings,
                   pass, lastOp>>

\* The registry's mutators with the discovery queries made between them
DiscoveryNext ==
    \/ \E p \in PluginObjects : RegisterCall(p, FALSE)
    \/ \E id \in PluginIds : UnregisterCall(id, FALSE)
    \/ \E v \in HostVersions : UpdateLifeOSVersionCall(v, FALSE)
    \/ \E v \in QueriedVersions : GetCompatiblePlugins(v)

SpecDiscovery == Init /\ [][DiscoveryNext]_vars

(***************************************************************************)
(* PluginManager: enablePlugin / disablePlugin around the passes           *)
(***************************************************************************)
\* the plugin objects registered around these calls
EnabledPlugins == {PluginA, PluginB}

\* enablePlugin(pluginId) / disablePlugin(pluginId), recorded in lastOp
SetEnabledCall(op, pluginId, outcome) ==
    LET r == SetEnabledResult(plugins, settings, pluginId, op = "enablePlugin", outcome) IN
        /\ EnvAllowed
        /\ settings' = r.settings
        /\ lastOp' = [op |-> op, id |-> pluginId,
                      name |-> IF MapHas(plugins, pluginId)
                               THEN MapGet(plugins, pluginId).name ELSE "",
                      threw |-> r.threw]
        /\ pass' = EnvStep
        /\ UNCHANGED <<oauth, marketplace, manager, probe, plugins, capabilityIndex, currentLifeOSVersion>>

\* routeEvent and performSystemSync passes, with the enablePlugin and
\* disablePlugin calls host code makes before and during them
EnabledNext ==
    \/ \E p \in EnabledPlugins : RegisterCall(p, FALSE)
    \/ \E op \in SettingsOps : \E id \in {p.id : p \in EnabledPlugins} \cup {"missing"} :
          \E outcome \in SetEnabledOutcomes : SetEnabledCall(op, id, outcome)
    \/ \E type \in EventTypes : RouteEventStart(type)
    \/ \E throws \in BOOLEAN : RouteGetSettings(throws)
    \/ \E throws \in BOOLEAN : RouteHook(throws)
    \/ PerformSystemSyncStart
    \/ \E throws \in BOOLEAN : SyncGetSettings(throws)
    \/ \E outcome \in CallOutcomes : SyncCall(outcome)
    \/ PassReturn

SpecEnabled == Init /\ [][EnabledNext]_vars

(***************************************************************************)
(* The passes when every plugin call settles                               *)
(***************************************************************************)
\* the call the pass awaits settles, whatever its outcome
PassSettles ==
    \/ \E throws \in BOOLEAN : RouteGetSettings(throws)
    \/ \E throws \in BOOLEAN : RouteHook(throws)
    \/ \E throws \in BOOLEAN : SyncGetSettings(throws)
    \/ \E outcome \in CallOutcomes : SyncCall(outcome)
    \/ \E outcome \in CallOutcomes : StatusGetSettings(outcome)

SettlingNext ==
    \/ EnabledNext
    \/ GetSystemStatusStart
    \/ \E outcome \in CallOutcomes : StatusGetSettings(outcome)

\* EnabledNext with getSystemStatus, under the hypothesis that no plugin call
\* stays pending forever; a pass step is the continuation of the one await the
\* pass is suspended in, which runs once that promise has settled
SpecSettling == Init /\ [][SettlingNext]_vars /\ WF_vars(PassSettles)

(***************************************************************************)
(* utils/event-routing: the fan-out helpers                                *)
(***************************************************************************)
FanOutHelpers == {"routeEventToCapability", "routeEventToAll", "broadcastEvent"}

\* what selects the targets: the capability type of routeEventToCapability,
\* the filter of broadcastEvent ("" when it is omitted), nothing otherwise
Selectors(helper) ==
    IF helper = "routeEventToCapability" THEN {"sync", "oauth"}
    ELSE IF helper = "broadcastEvent" THEN {"", "hasSync"}
    ELSE {""}

\* plugins.filter(...) of routeEventToCapability and of broadcastEvent
Targets(helper, selector, P) ==
    IF helper = "routeEventToCapability"
    THEN SelectSeq(P, LAMBDA q : selector \in DeclaredTypes(q))
    ELSE IF helper = "broadcastEvent" /\ selector = "hasSync"
    THEN SelectSeq(P, LAMBDA q : q.hasSync)
    ELSE P

\* return { pluginId: plugin.id, status: 'no-handler' }
NoHandler(plugin) == [pluginId |-> plugin.id, status |-> "no-handler"]

\* the slot of Promise.all for a mapper that has not settled
Pending(plugin) == [pluginId |-> plugin.id, status |-> "pending"]

\* what a handler resolves with (Promise<void>)
HandlerValue == [value |-> "undefined"]

\* catch (error) { return { pluginId, error: message } }
FanOutErrorEntry(plugin, thrown) ==
    [pluginId |-> plugin.id, error |-> ErrorMessage(thrown)]

\* Promise.all: resolves once every mapper has resolved
FanOutJoin(p) == IF p.inflight = {} THEN [p EXCEPT !.pc = "done"] ELSE p

\* targets.map(async plugin => ...): every mapper runs up to its await, so
\* every handler there is for the event type is called before any settles;
\* a target without one resolves to the no-handler entry
FanOutMap(helper, type, selector, T) ==
    FanOutJoin([IdlePass EXCEPT
        !.kind = helper, !.pc = "awaitAll", !.event = type,
        !.status = <<selector>>, !.snapshot = T,
        !.inflight = {InFlight(k, HookToCall(type, T[k])) :
                         k \in {j \in 1..Len(T) : HookToCall(type, T[j]) # "none"}},
        !.results = [k \in 1..Len(T) |->
                        IF HookToCall(type, T[k]) = "none"
                        THEN NoHandler(T[k]) ELSE Pending(T[k])]])

\* the helper is called with the registry's plugins
FanOutStart(helper, type, selector) ==
    /\ pass.pc = "idle"
    /\ pass' = FanOutMap(helper, type, selector,
                         Targets(helper, selector, getAllPlugins))
    /\ UNCHANGED <<oauth, marketplace, manager, probe, plugins, capabilityIndex, currentLifeOSVersion, settings, lastOp>>

\* a mapper without try/catch: its rejection rejects Promise.all
FanOutSettledRethrows(p, k, outcome) ==
    LET plugin == p.snapshot[k]
        hook == HookToCall(p.event, plugin)
        logged == [p EXCEPT !.inflight = @ \ {InFlight(k, hook)},
                            !.calls = Append(@, Call(plugin, hook,
                                       IF outcome = "ok" THEN "ok" ELSE "threw"))]
    IN  IF outcome = "ok"
        THEN FanOutJoin([logged EXCEPT !.results[k] = HandlerValue])
        ELSE [logged EXCEPT !.pc = "rejected"]

\* the handler of target k settled: its mapper resolves with the handler's
\* value, or with the error entry of the catch block
FanOutSettled(p, k, outcome) ==
    LET plugin == p.snapshot[k]
        hook == HookToCall(p.event, plugin)
        logged == [p EXCEPT !.inflight = @ \ {InFlight(k, hook)},
                            !.calls = Append(@, Call(plugin, hook,
                                       IF outcome = "ok" THEN "ok" ELSE "threw"))]
    IN  FanOutJoin([logged EXCEPT !.results[k] =
                       IF outcome = "ok" THEN HandlerValue
                       ELSE FanOutErrorEntry(plugin, outcome)])

FanOutSettle(k, outcome) ==
    /\ pass.kind \in FanOutHelpers /\ pass.pc = "awaitAll"
    /\ k \in 1..Len(pass.snapshot)
    /\ InFlight(k, HookToCall(pass.event, pass.snapshot[k])) \in pass.inflight
    /\ pass' = FanOutSettled(pass, k, outcome)
    /\ UNCHANGED <<oauth, marketplace, manager, probe, plugins, capabilityIndex, currentLifeOSVersion, settings, lastOp>>

\* The fan-out helpers over the registry's plugins, with the registry calls
\* host code makes around and during them
FanOutNext ==
    \/ \E p \in PluginObjects : RegisterCall(p, FALSE)
    \/ \E id \in PluginIds : UnregisterCall(id, FALSE)
    \/ \E helper \in FanOutHelpers : \E type \in EventTypes :
          \E selector \in Selectors(helper) : FanOutStart(helper, type, selector)
    \/ \E k \in 1..Cardinality(PluginIds) : \E outcome \in CallOutcomes :
          FanOutSettle(k, outcome)
    \/ PassReturn

SpecFanOut == Init /\ [][FanOutNext]_vars

(***************************************************************************)
(* PluginManager: the auto-sync timer and destroy()                        *)
(***************************************************************************)
\* ticks of the interval timer considered
MaxTicks == 2

\* the plugin objects registered with the Manager around the timer's ticks
AutoSyncPlugins == {PluginA, PluginB}

\* a timer set with setTimeout: it fires once
TimerOneShot(m) == [m EXCEPT !.syncInterval = "cleared"]

\* setInterval: the timer stays set after its callback was called
TimerAfterTick(m) == m

\* performSystemSync() up to its first await
BeginSystemSync(P) ==
    IF Len(P) = 0
    THEN [StartPass("performSystemSync", "", P) EXCEPT !.pc = "done"]
    ELSE StartPass("performSystemSync", "", P)

\* the timer fires: the callback calls this.performSystemSync() and awaits it
Tick ==
    /\ manager.syncInterval = "set"
    /\ manager.ticks < MaxTicks
    /\ manager' = TimerAfterTick([manager EXCEPT
                      !.ticks = @ + 1,
                      !.autoSync = Append(@, BeginSystemSync(getAllPlugins))])
    /\ UNCHANGED <<oauth, marketplace, probe, plugins, capabilityIndex, currentLifeOSVersion, settings,
                   pass, lastOp>>

\* the getSettings() the k-th tick's pass awaits settles
AutoSyncGetSettings(k, throws) ==
    /\ k \in 1..Len(manager.autoSync)
    /\ manager.autoSync[k].pc = "getSettings"
    /\ LET p == manager.autoSync[k] IN
         manager' = [manager EXCEPT !.autoSync[k] =
            IF throws
            THEN SyncCatch([Settle(p, "getSettings") EXCEPT !.calls =
                     Append(@, Call(Current(p), "getSettings", "threw"))], "Error")
            ELSE SyncSettled(p, settings[Current(p).name])]
    /\ UNCHANGED <<oauth, marketplace, probe, plugins, capabilityIndex, currentLifeOSVersion, settings,
                   pass, lastOp>>

\* the sync() the k-th tick's pass awaits settles
AutoSyncCall(k, outcome) ==
    /\ k \in 1..Len(manager.autoSync)
    /\ manager.autoSync[k].pc = "sync"
    /\ LET p == manager.autoSync[k]
           logged == [Settle(p, "sync") EXCEPT
                         !.calls = Append(@, Call(Current(p), "sync",
                                          IF outcome = "ok" THEN "ok" ELSE "threw"))]
       IN  manager' = [manager EXCEPT !.autoSync[k] =
                          IF outcome = "ok" THEN SyncResolved(logged)
                          ELSE SyncCatch(logged, outcome)]
    /\ UNCHANGED <<oauth, marketplace, probe, plugins, capabilityIndex, currentLifeOSVersion, settings,
                   pass, lastOp>>

\* try { await this.performSystemSync() } catch (error) { console.error(...) }:
\* how the timer callback of a pass ends
CallbackOutcome(p) ==
    IF p.pc = "rejected" THEN "logged"
    ELSE IF p.pc = "done" THEN "resolved"
    ELSE "running"

\* a destroy() that forgets clearInterval
DestroyResultKeepsTimer(m, P) ==
    [m EXCEPT !.destroyed = TRUE,
              !.destroyCalls = [k \in 1..Len(P) |->
                                   [name |-> P[k].name, outcome |-> "pending"]]]

\* PluginManager.destroy(): clearInterval, then plugin.destroy() is called on
\* every plugin of getAllPlugins(), none of them awaited
DestroyResult(m, P) ==
    [m EXCEPT !.syncInterval = "cleared",
              !.destroyed = TRUE,
              !.destroyCalls = [k \in 1..Len(P) |->
                                   [name |-> P[k].name, outcome |-> "pending"]]]

ManagerDestroy ==
    /\ ~manager.destroyed
    /\ manager' = DestroyResult(manager, getAllPlugins)
    /\ UNCHANGED <<oauth, marketplace, probe, plugins, capabilityIndex, currentLifeOSVersion, settings,
                   pass, lastOp>>

\* plugin.destroy().catch(console.error): a rejection is logged
DestroyCatch(rejects) == IF rejects THEN "logged" ELSE "resolved"

\* the promise of the k-th plugin.destroy() settles
PluginDestroySettles(k, rejects) ==
    /\ k \in 1..Len(manager.destroyCalls)
    /\ manager.destroyCalls[k].outcome = "pending"
    /\ manager' = [manager EXCEPT !.destroyCalls[k].outcome = DestroyCatch(rejects)]
    /\ UNCHANGED <<oauth, marketplace, probe, plugins, capabilityIndex, currentLifeOSVersion, settings,
                   pass, lastOp>>

\* The timer, the passes its ticks start (which may overlap), destroy(), and
\* the registrations and enablings host code makes meanwhile
AutoSyncNext ==
    \/ \E p \in AutoSyncPlugins : RegisterCall(p, FALSE)
    \/ EnablePlugin("a", "ok")
    \/ Tick
    \/ \E k \in 1..MaxTicks : \E throws \in BOOLEAN : AutoSyncGetSettings(k, throws)
    \/ \E k \in 1..MaxTicks : \E outcome \in {"ok", "Error"} : AutoSyncCall(k, outcome)
    \/ ManagerDestroy
    \/ \E k \in 1..Cardinality(AutoSyncPlugins) : \E rejects \in BOOLEAN :
          PluginDestroySettles(k, rejects)

SpecAutoSync == Init /\ [][AutoSyncNext]_vars

(***************************************************************************)
(* determineSystemHealth on its own: every status list up to MaxStatuses   *)
(***************************************************************************)
MaxStatuses == 5

\* PluginStatus.status
StatusValues == {"active", "inactive", "error", "syncing", "initializing"}

StatusLists ==
    UNION {[1..n -> {[status |-> v] : v \in StatusValues}] : n \in 0..MaxStatuses}

InitHealth ==
    /\ plugins = <<>>
    /\ capabilityIndex = initializeCapabilityIndex
    /\ currentLifeOSVersion = V100
    /\ settings = [n \in PluginNames |-> [enabled |-> FALSE]]
    /\ pass = IdlePass
    /\ lastOp = [op |-> "new", id |-> "", name |-> "", threw |-> FALSE]
    /\ manager = ManagerConstructed
    /\ oauth = OAuthConstructed
    /\ marketplace = MarketplaceConstructed
    /\ probe \in {[fn |-> "determineSystemHealth", in |-> l, out |-> <<>>] :
                     l \in StatusLists}

ApplyDetermineSystemHealth ==
    /\ probe.fn = "determineSystemHealth" /\ probe.out = <<>>
    /\ probe' = [probe EXCEPT !.out = <<determineSystemHealth(probe.in)>>]
    /\ UNCHANGED <<oauth, marketplace, manager, plugins, capabilityIndex, currentLifeOSVersion, settings, pass, lastOp>>

SpecHealth == InitHealth /\ [][ApplyDetermineSystemHealth]_vars

(***************************************************************************)
(* satisfiesVersion on its own: version and range texts written from       *)
(* known numbers, and texts that are no version                            *)
(***************************************************************************)
\* decimal numerals with the numbers they denote
VersionNumerals ==
    {[text |-> <<"0">>, value |-> 0], [text |-> <<"1">>, value |-> 1],
     [text |-> <<"3">>, value |-> 3], [text |-> <<"4">>, value |-> 4],
     [text |-> <<"1", "0">>, value |-> 10]}

RangeNumerals ==
    {[text |-> <<"0">>, value |-> 0], [text |-> <<"1">>, value |-> 1],
     [text |-> <<"3">>, value |-> 3]}

\* pre-release / build suffixes SEMVER_REGEX accepts
Suffixes ==
    {<<"-", "b">>, <<"+", "7">>, <<"-", "r", "c", ".", "1", "+", "b", "-", "5">>}

\* major.minor.patch followed by suffix
WrittenVersion(a, b, c, suffix) ==
    [text |-> a.text \o <<".">> \o b.text \o <<".">> \o c.text \o suffix,
     wellFormed |-> TRUE,
     triple |-> <<a.value, b.value, c.value>>,
     suffixed |-> suffix # <<>>]

NotAVersion(text) ==
    [text |-> text, wellFormed |-> FALSE, triple |-> <<>>, suffixed |-> FALSE]

\* texts that lack the three numeric components, or have more than SEMVER_REGEX takes
MalformedVersions ==
    {NotAVersion(<<>>),
     NotAVersion(<<"1", ".", "0">>),
     NotAVersion(<<"1">>),
     NotAVersion(<<"v", "1", ".", "0", ".", "0">>),
     NotAVersion(<<"1", ".", "x", ".", "0">>),
     NotAVersion(<<"1", ".", ".", "0">>),
     NotAVersion(<<"1", ".", "0", ".">>),
     NotAVersion(<<"1", ".", "0", ".", "0", ".", "0">>),
     NotAVersion(<<"1", ".", "0", ".", "0", "-">>),
     NotAVersion(<<"1", ".", "0", ".", "0", " ">>),
     NotAVersion(<<" ", "1", ".", "0", ".", "0">>)}

ProbeVersions ==
    {WrittenVersion(a, b, c, <<>>) : a \in VersionNumerals, b \in VersionNumerals,
                                     c \in VersionNumerals}
    \cup {WrittenVersion(a, a, c, s) : a \in RangeNumerals, c \in RangeNumerals,
                                      s \in Suffixes}
    \cup MalformedVersions
    \cup {NotAVersion(<<"=", "1", ".", "0", ".", "0">>)}

RangeVersions ==
    {WrittenVersion(a, b, c, <<>>) : a \in RangeNumerals, b \in RangeNumerals,
                                     c \in RangeNumerals}
    \cup {WrittenVersion(a, a, a, s) : a \in RangeNumerals, s \in Suffixes}
    \cup MalformedVersions

\* the prefixes satisfiesVersion tests, and no prefix
RangeOperators == {<<">", "=">>, <<">">>, <<"<", "=">>, <<"<">>, <<"^">>, <<"~">>, <<>>}

ProbeRanges ==
    {[text |-> op \o v.text, op |-> op, version |-> v] :
        op \in RangeOperators, v \in RangeVersions}

InitVersion ==
    /\ plugins = <<>>
    /\ capabilityIndex = initializeCapabilityIndex
    /\ currentLifeOSVersion = V100
    /\ settings = [n \in PluginNames |-> [enabled |-> FALSE]]
    /\ pass = IdlePass
    /\ lastOp = [op |-> "new", id |-> "", name |-> "", threw |-> FALSE]
    /\ manager = ManagerConstructed
    /\ oauth = OAuthConstructed
    /\ marketplace = MarketplaceConstructed
    /\ probe \in {[fn |-> "satisfiesVersion", in |-> [version |-> v, range |-> r],
                    out |-> <<>>] : v \in ProbeVersions, r \in ProbeRanges}

ApplySatisfiesVersion ==
    /\ probe.fn = "satisfiesVersion" /\ probe.out = <<>>
    /\ probe' = [probe EXCEPT !.out =
                    <<SatisfiesVersionCall(probe.in.version.text, probe.in.range.text)>>]
    /\ UNCHANGED <<oauth, marketplace, manager, plugins, capabilityIndex, currentLifeOSVersion, settings, pass, lastOp>>

SpecVersion == InitVersion /\ [][ApplySatisfiesVersion]_vars

(***************************************************************************)
(* checkCompatibility on its own: plugins written from known versions,     *)
(* ranges and capability requirements                                      *)
(***************************************************************************)
Zero == [text |-> <<"0">>, value |-> 0]

\* plugin versions: majors around the staleness threshold, and one malformed
CheckedVersions ==
    {WrittenVersion(a, Zero, Zero, <<>>) : a \in VersionNumerals}
    \cup {NotAVersion(<<"1", ".", "0">>)}

CheckedRanges ==
    {r \in ProbeRanges : r.version.wellFormed /\ ~r.version.suffixed
                         /\ r.version.triple \in {<<1, 0, 0>>, <<3, 0, 0>>}}

CheckedHosts == {WrittenVersion(a, b, Zero, <<>>) : a \in RangeNumerals \ {Zero},
                                                    b \in {Zero}}

\* requiredCapabilities: none, a known name, an unknown name first
CheckedRequirements == {<<>>, <<"sync">>, <<"telepathy", "sync">>}

\* the years new Date().getFullYear() returns
CurrentYears == {2024, 2026}

CheckedPlugin(v, r, rc) ==
    [name |-> "P", id |-> "p", version |-> v.text,
     requiredLifeOSVersion |-> r.text, requiredCapabilities |-> rc,
     capabilities |-> <<>>, hooks |-> {}, hasSync |-> FALSE]

InitCompatibility ==
    /\ plugins = <<>>
    /\ capabilityIndex = initializeCapabilityIndex
    /\ currentLifeOSVersion = V100
    /\ settings = [n \in PluginNames |-> [enabled |-> FALSE]]
    /\ pass = IdlePass
    /\ lastOp = [op |-> "new", id |-> "", name |-> "", threw |-> FALSE]
    /\ manager = ManagerConstructed
    /\ oauth = OAuthConstructed
    /\ marketplace = MarketplaceConstructed
    /\ probe \in {[fn |-> "checkCompatibility",
                    in |-> [version |-> v, range |-> r, required |-> rc,
                            host |-> h, year |-> y],
                    out |-> <<>>] :
                     v \in CheckedVersions, r \in CheckedRanges,
                     rc \in CheckedRequirements, h \in CheckedHosts, y \in CurrentYears}

ApplyCheckCompatibility ==
    /\ probe.fn = "checkCompatibility" /\ probe.out = <<>>
    /\ probe' = [probe EXCEPT !.out =
                    <<PluginCompatibility(
                        CheckedPlugin(probe.in.version, probe.in.range, probe.in.required),
                        probe.in.host.text, probe.in.year)>>]
    /\ UNCHANGED <<oauth, marketplace, manager, plugins, capabilityIndex, currentLifeOSVersion, settings, pass, lastOp>>

SpecCompatibility == InitCompatibility /\ [][ApplyCheckCompatibility]_vars

(***************************************************************************)
(* Registry properties                                                     *)
(***************************************************************************)
Registered(P, plugin) == \E i \in 1..Len(P) : P[i] = plugin

Incompatible(plugin) == ~checkCompatibility(plugin).compatible

\* no discovery query returns a plugin with this id
AbsentFromDiscovery(P, I, id) ==
    \A c \in AllCapabilities : \A q \in PluginsByCapability(P, I, c) : q.id # id

\* C1 as stated: a register of a plugin the host version does not satisfy throws,
\* leaves the plugin map and the index as they were, and afterwards the plugin
\* is absent from getAllPlugins().
C1_RejectedPluginIsAbsent ==
    [][\A p \in PluginObjects :
          (Register(p) /\ Incompatible(p)) =>
              /\ lastOp'.threw
              /\ plugins' = plugins /\ capabilityIndex' = capabilityIndex
              /\ ~Registered(plugins', p)]_vars

\* C1 amended: a register of a plugin the host version does not satisfy throws
\* and leaves the plugin map and the index exactly as they were; the plugin is
\* absent afterwards when it was absent before the call.
C1_RejectedRegisterIsAtomic ==
    [][\A p \in PluginObjects :
          (Register(p) /\ Incompatible(p)) =>
              /\ lastOp'.threw
              /\ plugins' = plugins /\ capabilityIndex' = capabilityIndex
              /\ (~Registered(plugins, p) => ~Registered(plugins', p))]_vars

\* a register has just thrown while other plugins are registered, and the
\* rejected plugin is in no bucket and not in the map
C1_Witness ==
    /\ lastOp.op = "register" /\ lastOp.threw
    /\ Len(plugins) > 0
    /\ ~MapHas(plugins, lastOp.id)
    /\ \A c \in DOMAIN capabilityIndex : lastOp.id \notin capabilityIndex[c]

\* C2: every registered plugin is in the bucket of every capability it declares.
C2_IndexComplete ==
    \A i \in 1..Len(plugins) : \A c \in DeclaredTypes(plugins[i]) :
        /\ c \in DOMAIN capabilityIndex
        /\ plugins[i].id \in capabilityIndex[c]
        /\ plugins[i] \in getPluginsByCapability(c)

\* C3: after unregister(id) no bucket contains id, and getStats() counts only
\* ids of registered plugins.
C3_NoStaleEntryAfterUnregister ==
    lastOp.op = "unregister" =>
        /\ \A c \in DOMAIN capabilityIndex : lastOp.id \notin capabilityIndex[c]
        /\ \A c \in DOMAIN capabilityIndex :
              getStats.capabilityStats[c] =
                  Cardinality(capabilityIndex[c] \cap MapIds(plugins))

\* C4: unregister(id) leaves no plugin with that id in any
\* getPluginsByCapability result, and that stays so until a plugin with that id
\* is registered.
C4_UnregisteredIsNotDiscovered ==
    [][\A id \in PluginIds :
          (\/ Unregister(id)
           \/ /\ AbsentFromDiscovery(plugins, capabilityIndex, id)
              /\ ~\E p \in PluginObjects : p.id = id /\ Register(p))
          => AbsentFromDiscovery(plugins', capabilityIndex', id)]_vars

\* an unregister has returned while a bucket still holds the id, and discovery
\* does not show it
C4_Witness ==
    /\ lastOp.op = "unregister"
    /\ \E c \in DOMAIN capabilityIndex : lastOp.id \in capabilityIndex[c]
    /\ AbsentFromDiscovery(plugins, capabilityIndex, lastOp.id)

(***************************************************************************)
(* Manager pass properties                                                 *)
(***************************************************************************)
HookMethods == {"onEventCreated", "onEventUpdated", "onEventDeleted"}

\* positions in the call log of the calls of these methods on this plugin
CallsOn(p, plugin, methods) ==
    {j \in 1..Len(p.calls) :
        p.calls[j].name = plugin.name /\ p.calls[j].method \in methods}

\* what the pass's getSettings() call on this plugin produced
SettingsOutcomeIs(p, plugin, outcome) ==
    \E j \in CallsOn(p, plugin, {"getSettings"}) : p.calls[j].outcome = outcome

\* the hook the event type names
HookOfType(type) ==
    CASE type = "created" -> "onEventCreated"
      [] type = "updated" -> "onEventUpdated"
      [] type = "deleted" -> "onEventDeleted"
      [] OTHER -> "no hook"

\* positions of the results this pass pushed for the k-th plugin of the snapshot
ResultsOf(p, k) == {j \in 1..Len(p.resultOf) : p.resultOf[j] = k}

RouteDone == pass.kind = "routeEvent" /\ pass.pc = "done"
SyncDone == pass.kind = "performSystemSync" /\ pass.pc = "done"
StatusDone == pass.kind = "getSystemStatus" /\ pass.pc = "done"

\* C5: a routeEvent pass calls the hook of the event's type exactly once on
\* every plugin whose getSettings() reported enabled and that implements the
\* hook, and calls no hook on a plugin whose getSettings() reported disabled.
C5_RouteDeliversToEnabledOnly ==
    /\ pass.kind = "routeEvent" =>
          \A k \in 1..Len(pass.snapshot) :
              /\ SettingsOutcomeIs(pass, pass.snapshot[k], "disabled") =>
                    CallsOn(pass, pass.snapshot[k], HookMethods) = {}
              /\ Cardinality(CallsOn(pass, pass.snapshot[k], HookMethods)) <= 1
    /\ RouteDone =>
          \A k \in 1..Len(pass.snapshot) :
              (/\ SettingsOutcomeIs(pass, pass.snapshot[k], "enabled")
               /\ HookOfType(pass.event) \in pass.snapshot[k].hooks)
              => /\ Cardinality(CallsOn(pass, pass.snapshot[k], HookMethods)) = 1
                 /\ CallsOn(pass, pass.snapshot[k], {HookOfType(pass.event)}) # {}

\* a finished pass in which one plugin reported enabled and got the hook and
\* another reported disabled and got none
C5_Witness ==
    /\ RouteDone
    /\ \E k1, k2 \in 1..Len(pass.snapshot) :
          /\ SettingsOutcomeIs(pass, pass.snapshot[k1], "enabled")
          /\ CallsOn(pass, pass.snapshot[k1], {HookOfType(pass.event)}) # {}
          /\ SettingsOutcomeIs(pass, pass.snapshot[k2], "disabled")
          /\ HookOfType(pass.event) \in pass.snapshot[k2].hooks
          /\ CallsOn(pass, pass.snapshot[k2], HookMethods) = {}

\* C6: routeEvent never rejects, and when a plugin's getSettings() or hook
\* throws, every plugin of the pass is still processed: its settings are read
\* once and, enabled and implementing the hook, it receives the event.
C6_RouteFaultIsolation ==
    pass.kind = "routeEvent" =>
        /\ pass.pc # "rejected"
        /\ pass.pc = "done" =>
              \A k \in 1..Len(pass.snapshot) :
                  /\ Cardinality(CallsOn(pass, pass.snapshot[k], {"getSettings"})) = 1
                  /\ (/\ SettingsOutcomeIs(pass, pass.snapshot[k], "enabled")
                      /\ HookOfType(pass.event) \in pass.snapshot[k].hooks)
                     => CallsOn(pass, pass.snapshot[k], HookMethods) # {}

\* a finished pass in which a hook threw, a getSettings() threw, and a plugin
\* after both still received the event
C6_Witness ==
    /\ RouteDone
    /\ \E j1, j2, j3 \in 1..Len(pass.calls) :
          /\ j1 < j2 /\ j2 < j3
          /\ pass.calls[j1].method \in HookMethods /\ pass.calls[j1].outcome = "threw"
          /\ pass.calls[j2].method = "getSettings" /\ pass.calls[j2].outcome = "threw"
          /\ pass.calls[j3].method \in HookMethods /\ pass.calls[j3].outcome = "ok"

\* the results are pushed in the order of the snapshot, at most one per plugin
ResultsInRegistrationOrder(p) ==
    \A j1, j2 \in 1..Len(p.resultOf) : j1 < j2 => p.resultOf[j1] < p.resultOf[j2]

\* sync() is never called on a plugin whose getSettings() reported disabled
NoSyncOnDisabled(p) ==
    \A k \in 1..Len(p.snapshot) :
        SettingsOutcomeIs(p, p.snapshot[k], "disabled") =>
            CallsOn(p, p.snapshot[k], {"sync"}) = {}

\* C7 as stated: performSystemSync returns exactly one result for each plugin
\* that is enabled and implements sync(), in registration order, and no result
\* for a plugin that is disabled or does not implement sync(); sync() is never
\* called on a disabled plugin.
C7_ResultsOnlyForEnabledSyncable ==
    /\ pass.kind = "performSystemSync" => NoSyncOnDisabled(pass)
    /\ SyncDone =>
          /\ Len(pass.results) = Len(pass.resultOf)
          /\ ResultsInRegistrationOrder(pass)
          /\ \A k \in 1..Len(pass.snapshot) :
                /\ (/\ SettingsOutcomeIs(pass, pass.snapshot[k], "enabled")
                    /\ pass.snapshot[k].hasSync)
                   => Cardinality(ResultsOf(pass, k)) = 1
                /\ (\/ SettingsOutcomeIs(pass, pass.snapshot[k], "disabled")
                    \/ ~pass.snapshot[k].hasSync)
                   => ResultsOf(pass, k) = {}

\* C7 amended: performSystemSync returns, in registration order, exactly one
\* result for each plugin that is enabled and implements sync() and one
\* synthetic failed result for each plugin whose getSettings() threw (whether
\* or not that plugin implements sync()), and no other result; sync() is never
\* called on a disabled plugin.
C7_ResultsForSyncedOrFailed ==
    /\ pass.kind = "performSystemSync" => NoSyncOnDisabled(pass)
    /\ SyncDone =>
          /\ Len(pass.results) = Len(pass.resultOf)
          /\ ResultsInRegistrationOrder(pass)
          /\ \A k \in 1..Len(pass.snapshot) :
                Cardinality(ResultsOf(pass, k)) =
                    IF \/ /\ SettingsOutcomeIs(pass, pass.snapshot[k], "enabled")
                          /\ pass.snapshot[k].hasSync
                       \/ SettingsOutcomeIs(pass, pass.snapshot[k], "threw")
                    THEN 1 ELSE 0
          /\ \A k \in 1..Len(pass.snapshot) :
                SettingsOutcomeIs(pass, pass.snapshot[k], "threw") =>
                    \A j \in ResultsOf(pass, k) : ~pass.results[j].success

\* a finished sync pass over three plugins: one synced, one disabled with
\* sync(), one enabled without sync(); one result
C7_Witness ==
    /\ SyncDone
    /\ Len(pass.snapshot) = 3
    /\ Len(pass.results) = 1
    /\ \E k1, k2, k3 \in 1..3 :
          /\ SettingsOutcomeIs(pass, pass.snapshot[k1], "enabled")
          /\ pass.snapshot[k1].hasSync
          /\ Cardinality(ResultsOf(pass, k1)) = 1
          /\ SettingsOutcomeIs(pass, pass.snapshot[k2], "disabled")
          /\ pass.snapshot[k2].hasSync
          /\ SettingsOutcomeIs(pass, pass.snapshot[k3], "enabled")
          /\ ~pass.snapshot[k3].hasSync

\* C8: performSystemSync never rejects; a plugin whose sync() threw has a
\* result with success false, zero counts and a non-empty errors list; a plugin
\* whose sync() returned has the value it returned; every plugin of the pass is
\* processed.
C8_SyncFaultIsolation ==
    pass.kind = "performSystemSync" =>
        /\ pass.pc # "rejected"
        /\ pass.pc = "done" =>
              \A k \in 1..Len(pass.snapshot) :
                  /\ Cardinality(CallsOn(pass, pass.snapshot[k], {"getSettings"})) = 1
                  /\ (/\ SettingsOutcomeIs(pass, pass.snapshot[k], "enabled")
                      /\ pass.snapshot[k].hasSync)
                     => Cardinality(CallsOn(pass, pass.snapshot[k], {"sync"})) = 1
                  /\ \A c \in CallsOn(pass, pass.snapshot[k], {"sync"}) :
                        /\ Cardinality(ResultsOf(pass, k)) = 1
                        /\ \A j \in ResultsOf(pass, k) :
                              IF pass.calls[c].outcome = "threw"
                              THEN /\ pass.results[j].success = FALSE
                                   /\ pass.results[j].eventsImported = 0
                                   /\ pass.results[j].eventsExported = 0
                                   /\ Len(pass.results[j].errors) > 0
                              ELSE /\ pass.results[j].success = TRUE
                                   /\ pass.results[j].metadata = <<pass.snapshot[k].name>>
                                   /\ pass.results[j].eventsImported = 3
                                   /\ pass.results[j].eventsExported = 2
                                   /\ pass.results[j].errors = <<>>

\* a finished sync pass in which the first plugin's sync() threw and a later
\* plugin's sync() returned and is in the results
C8_Witness ==
    /\ SyncDone
    /\ Len(pass.results) = 2
    /\ ~pass.results[1].success /\ Len(pass.results[1].errors) = 1
    /\ pass.results[2].success
    /\ \E c1, c2 \in 1..Len(pass.calls) :
          /\ c1 < c2
          /\ pass.calls[c1].method = "sync" /\ pass.calls[c1].outcome = "threw"
          /\ pass.calls[c2].method = "sync" /\ pass.calls[c2].outcome = "ok"

\* C9: with e error entries among n, the health is healthy iff e = 0, warning
\* iff 0 < e and 2e < n, error iff e > 0 and 2e >= n.
C9_HealthThresholds ==
    (probe.fn = "determineSystemHealth" /\ probe.out # <<>>) =>
        LET e == Cardinality({k \in 1..Len(probe.in) : probe.in[k].status = "error"})
            n == Len(probe.in)
        IN  /\ probe.out[1] \in {"healthy", "warning", "error"}
            /\ (probe.out[1] = "healthy") <=> (e = 0)
            /\ (probe.out[1] = "warning") <=> (0 < e /\ 2 * e < n)
            /\ (probe.out[1] = "error") <=> (e > 0 /\ 2 * e >= n)

\* three entries, one of them in error: warning
C9_Witness ==
    /\ probe.fn = "determineSystemHealth" /\ probe.out = <<"warning">>
    /\ Len(probe.in) = 3
    /\ Cardinality({k \in 1..Len(probe.in) : probe.in[k].status = "error"}) = 1

\* C10: getSystemStatus never rejects and resolves with one entry per plugin of
\* the pass, in registration order: error with errorCount 1 iff the plugin's
\* getSettings() threw, otherwise active or inactive as the settings say, with
\* errorCount 0; totalPlugins counts the plugins and activePlugins the active
\* entries.
C10_StatusPerPlugin ==
    pass.kind = "getSystemStatus" =>
        /\ pass.pc # "rejected"
        /\ pass.pc = "done" =>
              /\ Len(pass.status) = 1
              /\ LET st == pass.status[1] IN
                    /\ Len(st.pluginStatuses) = Len(pass.snapshot)
                    /\ st.totalPlugins = Len(pass.snapshot)
                    /\ st.activePlugins =
                          Cardinality({k \in 1..Len(st.pluginStatuses) :
                                          st.pluginStatuses[k].status = "active"})
                    /\ \A k \in 1..Len(pass.snapshot) :
                          LET entry == st.pluginStatuses[k]
                              plugin == pass.snapshot[k]
                          IN  /\ entry.pluginId = plugin.id
                              /\ entry.name = plugin.name
                              /\ (entry.status = "error") <=>
                                     SettingsOutcomeIs(pass, plugin, "threw")
                              /\ (entry.status = "active") <=>
                                     SettingsOutcomeIs(pass, plugin, "enabled")
                              /\ (entry.status = "inactive") <=>
                                     SettingsOutcomeIs(pass, plugin, "disabled")
                              /\ entry.errorCount =
                                     IF entry.status = "error" THEN 1 ELSE 0

\* a finished status pass over three plugins: one in error, one active, one
\* inactive, in that order
C10_Witness ==
    /\ StatusDone
    /\ Len(pass.status) = 1
    /\ Len(pass.status[1].pluginStatuses) = 3
    /\ pass.status[1].pluginStatuses[1].status = "error"
    /\ pass.status[1].pluginStatuses[2].status = "active"
    /\ pass.status[1].pluginStatuses[3].status = "inactive"
    /\ pass.status[1].totalPlugins = 3
    /\ pass.status[1].activePlugins = 1
    /\ pass.status[1].systemHealth = "warning"

(***************************************************************************)
(* Version range properties                                                *)
(***************************************************************************)
\* satisfiesVersion has been applied to a version and a range
VersionProbed == probe.fn = "satisfiesVersion" /\ probe.out # <<>>

\* both texts were written from three numbers, and the range has this prefix
WellFormedProbe(op) ==
    /\ VersionProbed
    /\ probe.in.range.op = op
    /\ probe.in.version.wellFormed
    /\ probe.in.range.version.wellFormed

\* (major, minor, patch) of a is lexicographically greater than that of b
TripleGreater(a, b) ==
    \/ a[1] > b[1]
    \/ a[1] = b[1] /\ a[2] > b[2]
    \/ a[1] = b[1] /\ a[2] = b[2] /\ a[3] > b[3]

\* C11: under a range ^0.Y.Z a version 0.m.p with m different from Y does not
\* satisfy the range.
C11_CaretZeroMajorPinsMinor ==
    (/\ WellFormedProbe(<<"^">>)
     /\ probe.in.range.version.triple[1] = 0
     /\ probe.in.version.triple[1] = 0
     /\ probe.in.version.triple[2] # probe.in.range.version.triple[2])
    => probe.out[1] = Ret(FALSE)

\* C12: under a range ^X.Y.Z with X >= 1, a well-formed version satisfies the
\* range iff its major is X and its triple is at least (X, Y, Z).
C12_CaretRange ==
    (WellFormedProbe(<<"^">>) /\ probe.in.range.version.triple[1] >= 1) =>
        LET v == probe.in.version.triple
            r == probe.in.range.version.triple
        IN  probe.out[1] = Ret(v[1] = r[1] /\ ~TripleGreater(r, v))

\* ^1.3.1 applied to a version with a greater minor and a smaller patch: true
C12_Witness ==
    /\ WellFormedProbe(<<"^">>)
    /\ probe.in.range.version.triple = <<1, 3, 1>>
    /\ probe.in.version.triple = <<1, 10, 0>>
    /\ probe.out[1] = Ret(TRUE)

\* C13: a well-formed version satisfies ~X.Y.Z iff its major is X, its minor
\* is Y and its patch is at least Z.
C13_TildeRange ==
    WellFormedProbe(<<"~">>) =>
        LET v == probe.in.version.triple
            r == probe.in.range.version.triple
        IN  probe.out[1] = Ret(v[1] = r[1] /\ v[2] = r[2] /\ v[3] >= r[3])

\* ~1.3.1 applied to 1.4.3, same major and a greater minor: false
C13_Witness ==
    /\ WellFormedProbe(<<"~">>)
    /\ probe.in.range.version.triple = <<1, 3, 1>>
    /\ probe.in.version.triple = <<1, 4, 3>>
    /\ probe.out[1] = Ret(FALSE)

\* C14: under >=, >, <= and < a well-formed version satisfies the range iff
\* its triple compares that way, lexicographically, with the range's triple.
C14_ComparisonRanges ==
    LET v == probe.in.version.triple
        r == probe.in.range.version.triple
    IN  /\ WellFormedProbe(<<">", "=">>) => probe.out[1] = Ret(~TripleGreater(r, v))
        /\ WellFormedProbe(<<">">>) => probe.out[1] = Ret(TripleGreater(v, r))
        /\ WellFormedProbe(<<"<", "=">>) => probe.out[1] = Ret(~TripleGreater(v, r))
        /\ WellFormedProbe(<<"<">>) => probe.out[1] = Ret(TripleGreater(r, v))

\* >=3.0.0 applied to 10.0.0 is true (ten is more than three) and the equal
\* triple under >= is true as well
C14_Witness ==
    /\ WellFormedProbe(<<">", "=">>)
    /\ probe.in.range.version.triple = <<3, 0, 0>>
    /\ probe.in.version.triple = <<10, 0, 0>>
    /\ probe.out[1] = Ret(TRUE)

\* C15: a range with no prefix is satisfied iff the triples are equal, and a
\* version (or range) that differs from the probed one only in its suffix gets
\* the same answer, under every range form.
C15_ExactAndSuffixIgnored ==
    /\ WellFormedProbe(<<>>) =>
          probe.out[1] = Ret(probe.in.version.triple = probe.in.range.version.triple)
    /\ (VersionProbed /\ probe.in.version.wellFormed) =>
          \A v2 \in ProbeVersions :
              (v2.wellFormed /\ v2.triple = probe.in.version.triple) =>
                  SatisfiesVersionCall(v2.text, probe.in.range.text) = probe.out[1]
    /\ (VersionProbed /\ probe.in.range.version.wellFormed) =>
          \A r2 \in ProbeRanges :
              (/\ r2.op = probe.in.range.op
               /\ r2.version.wellFormed
               /\ r2.version.triple = probe.in.range.version.triple) =>
                  SatisfiesVersionCall(probe.in.version.text, r2.text) = probe.out[1]

\* a suffixed version against an unprefixed suffixed range with the same
\* triple and another suffix: true
C15_Witness ==
    /\ WellFormedProbe(<<>>)
    /\ probe.in.version.suffixed /\ probe.in.range.version.suffixed
    /\ probe.in.version.text # probe.in.range.version.text
    /\ probe.in.version.triple = probe.in.range.version.triple
    /\ probe.out[1] = Ret(TRUE)

\* C16: satisfiesVersion never throws, and returns false when the version or
\* the version part of the range lacks the three numeric components.
C16_NeverThrows ==
    VersionProbed =>
        /\ ~probe.out[1].threw
        /\ (~probe.in.version.wellFormed \/ ~probe.in.range.version.wellFormed)
           => probe.out[1] = Ret(FALSE)

\* a well-formed version against >= followed by a two-component text: false
C16_Witness ==
    /\ VersionProbed
    /\ probe.in.version.wellFormed
    /\ probe.in.range.op = <<">", "=">>
    /\ probe.in.range.version.text = <<"1", ".", "0">>
    /\ probe.out[1] = Ret(FALSE)

(***************************************************************************)
(* Delivery discipline of the Manager's passes                             *)
(***************************************************************************)
\* position in the snapshot of the plugin a logged call was made on
SnapshotPosition(p, call) ==
    CHOOSE k \in 1..Len(p.snapshot) : p.snapshot[k].name = call.name

\* C20: in a routeEvent pass and in a performSystemSync pass at most one
\* plugin call is in flight, it is a call on the plugin whose turn it is, every
\* earlier plugin has had its getSettings() settled and no later plugin has had
\* any call, and the calls settle in registration order.
C20_SequentialDelivery ==
    pass.kind \in {"routeEvent", "performSystemSync"} =>
        /\ Cardinality(pass.inflight) <= 1
        /\ \A c \in pass.inflight :
              /\ c.k = pass.i
              /\ \A k \in 1..(c.k - 1) :
                    CallsOn(pass, pass.snapshot[k], {"getSettings"}) # {}
        /\ \A j \in 1..Len(pass.calls) :
              SnapshotPosition(pass, pass.calls[j]) <= pass.i
        /\ \A j1, j2 \in 1..Len(pass.calls) :
              j1 < j2 => SnapshotPosition(pass, pass.calls[j1])
                             <= SnapshotPosition(pass, pass.calls[j2])
        /\ pass.pc \in {"getSettings", "hook", "sync"} <=> pass.inflight # {}

\* the third plugin's sync() is in flight after the first two plugins' calls
\* have settled, sync() among them
C20_Witness ==
    /\ pass.kind = "performSystemSync"
    /\ Len(pass.snapshot) = 3
    /\ pass.inflight = {InFlight(3, "sync")}
    /\ \E j \in 1..Len(pass.calls) : pass.calls[j].method = "sync"
    /\ Len(pass.calls) >= 4

(***************************************************************************)
(* Properties of the operations addressed to one plugin                    *)
(***************************************************************************)
\* no call of the operation on any plugin threw
NoCallThrew(p) == \A j \in 1..Len(p.calls) : p.calls[j].outcome # "threw"

\* the methods the operation called, in order
MethodsCalled(p) == [j \in 1..Len(p.calls) |-> p.calls[j].method]

\* C17: loadPlugin, unloadPlugin, reloadPlugin, startPlugin, stopPlugin,
\* enablePlugin and disablePlugin called with an id the registry does not hold
\* reject with the plugin-not-found error, call no method of any plugin and
\* leave the plugin map, the capability index and the settings unchanged.
C17_UnknownIdRejects ==
    [][\A op \in LifecycleOps \cup SettingsOps : \A id \in AddressedIds :
          (LifecycleStart(op, id) /\ ~MapHas(plugins, id)) =>
              /\ pass'.pc = "rejected"
              /\ pass'.error = "Plugin not found"
              /\ pass'.calls = <<>> /\ pass'.inflight = {}
              /\ plugins' = plugins
              /\ capabilityIndex' = capabilityIndex
              /\ settings' = settings]_vars

\* a disablePlugin of an id whose plugin was unregistered has rejected with
\* not-found while another plugin is registered, and no call was made
C17_Witness ==
    /\ pass.kind = "disablePlugin" /\ pass.pc = "rejected"
    /\ pass.error = "Plugin not found"
    /\ pass.event = "a"
    /\ pass.calls = <<>>
    /\ Len(plugins) = 1
    /\ \E c \in DOMAIN capabilityIndex : "a" \in capabilityIndex[c]

\* C18: a reloadPlugin of a registered plugin whose destroy() and initialize()
\* do not throw calls destroy() and then initialize() and resolves.
C18_ReloadDestroysThenInitializes ==
    (/\ pass.kind = "reloadPlugin"
     /\ pass.pc \in {"done", "rejected"}
     /\ pass.snapshot # <<>>
     /\ NoCallThrew(pass))
    => /\ pass.pc = "done"
       /\ MethodsCalled(pass) = <<"destroy", "initialize">>

\* C19: when reloadPlugin rejects after its unload step succeeded, and no
\* other caller touched the registry meanwhile, the plugin's id is not in the
\* plugin map and in no capability bucket.
C19_FailedReloadLeavesUnregistered ==
    (/\ pass.kind = "reloadPlugin"
     /\ pass.pc = "rejected"
     /\ pass.env = 0
     /\ Len(pass.calls) > 0
     /\ pass.calls[1].method = "destroy" /\ pass.calls[1].outcome = "ok")
    => /\ ~MapHas(plugins, pass.event)
       /\ getPlugin(pass.event) = {}
       /\ \A c \in DOMAIN capabilityIndex : pass.event \notin capabilityIndex[c]

(***************************************************************************)
(* Snapshot iteration                                                      *)
(***************************************************************************)
BatchPasses == {"routeEvent", "performSystemSync", "getSystemStatus"}

\* C21: a routeEvent, performSystemSync or getSystemStatus pass iterates the
\* plugins registered when it started: it never rejects, every call it makes
\* is on a plugin of that list, and when it is done every plugin of the list
\* has had its settings read exactly once, whatever was registered or
\* unregistered while the pass was suspended in a plugin call.
C21_SnapshotIteration ==
    /\ [](pass.kind \in BatchPasses =>
            /\ pass.pc # "rejected"
            /\ \A j \in 1..Len(pass.calls) :
                  \E k \in 1..Len(pass.snapshot) :
                      pass.snapshot[k].name = pass.calls[j].name
            /\ pass.pc = "done" =>
                  \A k \in 1..Len(pass.snapshot) :
                      Cardinality(CallsOn(pass, pass.snapshot[k], {"getSettings"})) = 1)
    /\ [][(pass.pc = "idle" /\ pass'.kind \in BatchPasses)
              => pass'.snapshot = plugins]_vars

\* a finished routeEvent pass over two plugins, the first of which was
\* unregistered while the pass was under way: both got the event
C21_Witness ==
    /\ RouteDone
    /\ Len(pass.snapshot) = 2
    /\ pass.env = 1
    /\ ~MapHas(plugins, pass.snapshot[1].id)
    /\ \A k \in 1..2 : CallsOn(pass, pass.snapshot[k], HookMethods) # {}

(***************************************************************************)
(* The auto-sync timer and PluginManager.destroy()                         *)
(***************************************************************************)
PassFailures(p) == {i \in 1..Len(p.results) : ~p.results[i].success}

DestroyCallNames(m) == [k \in 1..Len(m.destroyCalls) |-> m.destroyCalls[k].name]

\* C22: from construction until destroy() the timer stays set, every tick
\* starts one performSystemSync pass over the plugins registered then, and
\* whatever fails in a tick's pass ends logged inside the callback: the
\* callback never throws and the timer is not touched
C22_AutoSyncEveryTick ==
    /\ [](/\ ~manager.destroyed => manager.syncInterval = "set"
          /\ Len(manager.autoSync) = manager.ticks
          /\ \A k \in 1..Len(manager.autoSync) :
                /\ manager.autoSync[k].kind = "performSystemSync"
                /\ CallbackOutcome(manager.autoSync[k]) \in {"running", "resolved", "logged"})
    /\ [][manager'.ticks # manager.ticks =>
            /\ manager'.ticks = manager.ticks + 1
            /\ Len(manager'.autoSync) = Len(manager.autoSync) + 1
            /\ SubSeq(manager'.autoSync, 1, Len(manager.autoSync)) = manager.autoSync
            /\ manager'.autoSync[manager'.ticks].snapshot = plugins
            /\ manager'.autoSync[manager'.ticks].calls = <<>>]_vars
    /\ [][(manager.syncInterval = "set" /\ ~manager'.destroyed) =>
            manager'.syncInterval = "set"]_vars

\* the first tick's pass met a failing plugin and completed; the second tick
\* fired all the same and its pass is at its first plugin
C22_Witness ==
    /\ manager.ticks = 2
    /\ manager.autoSync[1].pc = "done"
    /\ PassFailures(manager.autoSync[1]) # {}
    /\ manager.autoSync[2].pc = "getSettings"
    /\ manager.autoSync[2].calls = <<>>
    /\ manager.syncInterval = "set"

\* C23: destroy() clears the timer, so that no tick follows it; it calls
\* destroy() once on every plugin registered at that moment, in one go; a
\* rejection of one of these calls is logged and nothing else
C23_ManagerDestroy ==
    /\ [](manager.destroyed =>
            /\ manager.syncInterval = "cleared"
            /\ \A k \in 1..Len(manager.destroyCalls) :
                  manager.destroyCalls[k].outcome \in {"pending", "resolved", "logged"})
    /\ [][manager.destroyed =>
            /\ manager'.ticks = manager.ticks
            /\ DestroyCallNames(manager') = DestroyCallNames(manager)]_vars
    /\ [][(~manager.destroyed /\ manager'.destroyed) =>
            /\ DestroyCallNames(manager') = [k \in 1..Len(plugins) |-> plugins[k].name]
            /\ \A k \in 1..Len(plugins) : manager'.destroyCalls[k].outcome = "pending"
            /\ plugins' = plugins]_vars

\* two plugins were registered at destroy(); the first one's destroy()
\* rejected, the second one's resolved, and the timer had ticks left
C23_Witness ==
    /\ manager.destroyed
    /\ manager.ticks < MaxTicks
    /\ Len(manager.destroyCalls) = 2
    /\ manager.destroyCalls[1].outcome = "logged"
    /\ manager.destroyCalls[2].outcome = "resolved"

(***************************************************************************)
(* Enabled state                                                           *)
(***************************************************************************)
DeliveryPasses == {"routeEvent", "performSystemSync"}

\* the method a pass of this kind delivers to the plugin with, or "none"
DeliveryMethod(p, plugin) ==
    IF p.kind = "routeEvent" THEN HookToCall(p.event, plugin)
    ELSE IF plugin.hasSync THEN "sync" ELSE "none"

\* C24: enablePlugin / disablePlugin change nothing but the enabled field of
\* the addressed plugin's own settings (no registry state, no Manager state),
\* after a successful one that field holds the value written, and a pass
\* delivers to a plugin exactly when the settings the plugin holds at the
\* pass's getSettings() are enabled (and the plugin has the method)
C24_EnabledIsPluginOwned ==
    /\ [](lastOp.op \in SettingsOps /\ ~lastOp.threw =>
            settings[lastOp.name].enabled = (lastOp.op = "enablePlugin"))
    /\ [][(lastOp' # lastOp \/ settings' # settings) =>
            /\ lastOp'.op \in SettingsOps
            /\ plugins' = plugins /\ capabilityIndex' = capabilityIndex
            /\ currentLifeOSVersion' = currentLifeOSVersion /\ manager' = manager
            /\ pass' \in {pass, [pass EXCEPT !.env = @ + 1]}
            /\ settings' = IF lastOp'.threw THEN settings
                           ELSE [settings EXCEPT ![lastOp'.name].enabled =
                                                    (lastOp'.op = "enablePlugin")]]_vars
    /\ [][(/\ pass.kind \in DeliveryPasses /\ pass.pc = "getSettings"
           /\ pass'.calls # pass.calls
           /\ pass'.calls[Len(pass'.calls)].outcome # "threw") =>
            LET plugin == pass.snapshot[pass.i]
                stored == settings[plugin.name].enabled
            IN  /\ pass'.calls[Len(pass'.calls)] =
                      Call(plugin, "getSettings", IF stored THEN "enabled" ELSE "disabled")
                /\ (InFlight(pass.i, DeliveryMethod(pass, plugin)) \in pass'.inflight)
                      <=> (stored /\ DeliveryMethod(pass, plugin) # "none")
                /\ stored \/ pass'.inflight \subseteq {InFlight(pass.i + 1, "getSettings")}]_vars

\* plugin a was disabled with success before a performSystemSync pass over
\* two plugins, and nothing else was called during the pass: the pass asked
\* a for its settings, skipped its sync(), and synchronised the other plugin
C24_Witness ==
    /\ lastOp.op = "disablePlugin" /\ ~lastOp.threw /\ lastOp.name = PluginA.name
    /\ pass.kind = "performSystemSync" /\ pass.pc = "done" /\ pass.env = 0
    /\ Len(pass.snapshot) = 2
    /\ Call(PluginA, "getSettings", "disabled") \in {pass.calls[k] : k \in 1..Len(pass.calls)}
    /\ Call(PluginB, "sync", "ok") \in {pass.calls[k] : k \in 1..Len(pass.calls)}
    /\ \A k \in 1..Len(pass.calls) :
          pass.calls[k].name = PluginA.name => pass.calls[k].method = "getSettings"

(***************************************************************************)
(* checkCompatibility: warnings and recommendations                        *)
(***************************************************************************)
CompatibilityChecked == probe.fn = "checkCompatibility" /\ probe.out # <<>>

\* the plugin's major version is below the staleness threshold of the year
Stale(v, year) == v.wellFormed /\ v.triple[1] < year - 2023

\* no condition of incompatibility or of a warning holds for the checked plugin
NothingToReport ==
    /\ satisfiesVersion(probe.in.host.text, probe.in.range.text)
    /\ ~Stale(probe.in.version, probe.in.year)
    /\ probe.in.range.op \notin {<<>>, <<"~">>}

\* C27 as stated: when the host version satisfies the range, the plugin
\* version is not stale and the range is neither exact nor a tilde range,
\* checkCompatibility returns no recommendation, whatever requiredCapabilities
C27_NoRecommendationWithoutCause ==
    (CompatibilityChecked /\ NothingToReport) => probe.out[1].recommendations = <<>>

(***************************************************************************)
(* Discovery and dependency validation                                     *)
(***************************************************************************)
\* C25: getCompatiblePlugins(h) returns the registered plugins whose range h
\* satisfies, in registration order, whatever version the registry is
\* configured with, and changes no registry state
C25_CompatiblePluginsBySuppliedVersion ==
    [][(probe' # probe /\ probe'.fn = "getCompatiblePlugins") =>
        /\ \A p \in PluginObjects :
              Registered(probe'.out, p) <=>
                 (Registered(plugins, p)
                  /\ satisfiesVersion(probe'.in, p.requiredLifeOSVersion))
        /\ probe'.out = SelectSeq(plugins, LAMBDA p : Registered(probe'.out, p))
        /\ \A v \in HostVersions :
              getCompatiblePlugins(plugins, v, probe'.in) = probe'.out
        /\ plugins' = plugins /\ capabilityIndex' = capabilityIndex
        /\ currentLifeOSVersion' = currentLifeOSVersion
        /\ settings' = settings /\ manager' = manager]_vars

\* the registry holds two plugins and was asked about a version other than
\* its own: the answer is one of the two, and not what its own version gives
C25_Witness ==
    /\ probe.fn = "getCompatiblePlugins"
    /\ probe.in # currentLifeOSVersion
    /\ Len(plugins) = 2 /\ Len(probe.out) = 1
    /\ probe.out = getCompatiblePlugins(plugins, currentLifeOSVersion, probe.in)
    /\ probe.out # getCompatiblePlugins(plugins, currentLifeOSVersion, currentLifeOSVersion)

\* C26: register(p) succeeds exactly when the host version satisfies p's
\* range; then p is in the plugin map whatever p.requiredCapabilities holds,
\* and checkCompatibility reports no missing capability for any plugin
C26_DependencyValidationIsNonFatal ==
    /\ [](\A p \in PluginObjects : checkCompatibility(p).missingCapabilities = <<>>)
    /\ [][lastOp'.op = "register" =>
            \A p \in PluginObjects : p.name = lastOp'.name =>
               /\ ~lastOp'.threw <=>
                     satisfiesVersion(currentLifeOSVersion, p.requiredLifeOSVersion)
               /\ ~lastOp'.threw =>
                     /\ Registered(plugins', p)
                     /\ MapGet(plugins', p.id) = p
                     /\ validateCapabilityDependencies(p)]_vars

\* the plugin that requires a capability outside the known list was registered
C26_Witness ==
    /\ lastOp.op = "register" /\ ~lastOp.threw /\ lastOp.name = PluginB.name
    /\ \E i \in 1..Len(PluginB.requiredCapabilities) :
          PluginB.requiredCapabilities[i] \notin AllCapabilities
    /\ Registered(plugins, PluginB)

\* C29: unregister(id) with an id the plugin map does not hold changes
\* neither the map, nor any bucket, nor the host version, and does not throw
C29_UnregisterUnknownIsNoOp ==
    [][(lastOp'.op = "unregister" /\ ~MapHas(plugins, lastOp'.id)) =>
        /\ plugins' = plugins
        /\ capabilityIndex' = capabilityIndex
        /\ currentLifeOSVersion' = currentLifeOSVersion
        /\ ~lastOp'.threw]_vars

\* unregister was called with an id that is in no map entry while a bucket
\* still holds that id, and other plugins are registered
C29_Witness ==
    /\ lastOp.op = "unregister" /\ ~MapHas(plugins, lastOp.id)
    /\ Len(plugins) > 0
    /\ \E c \in DOMAIN capabilityIndex : lastOp.id \in capabilityIndex[c]

(***************************************************************************)
(* Fan-out helpers                                                         *)
(***************************************************************************)
FanOutRunning == pass.kind \in FanOutHelpers

\* the handler calls of target k that have settled with this outcome
SettledCalls(p, k, outcome) ==
    {j \in 1..Len(p.calls) :
        /\ p.calls[j].name = p.snapshot[k].name
        /\ p.calls[j].method \in HookMethods
        /\ p.calls[j].outcome = outcome}

\* C28: a fan-out helper calls the handler of every target at once, before
\* any of them settles; it never rejects; it resolves when all have settled,
\* with one entry per target in target order, the entry of a target whose
\* handler threw being {pluginId, error}; and a handler that settles touches
\* no other target's entry
C28_FanOutTogether ==
    /\ [](FanOutRunning =>
            /\ pass.pc # "rejected"
            /\ Len(pass.results) = Len(pass.snapshot)
            /\ pass.pc = "done" <=> pass.inflight = {}
            /\ \A k \in 1..Len(pass.snapshot) :
                  LET plugin == pass.snapshot[k]
                      hook == HookToCall(pass.event, plugin)
                  IN  /\ InFlight(k, hook) \in pass.inflight
                            <=> pass.results[k] = Pending(plugin)
                      /\ hook = "none" <=> pass.results[k] = NoHandler(plugin)
                      /\ SettledCalls(pass, k, "threw") # {}
                            <=> (/\ DOMAIN pass.results[k] = {"pluginId", "error"}
                                 /\ pass.results[k].pluginId = plugin.id)
                      /\ SettledCalls(pass, k, "ok") # {}
                            <=> pass.results[k] = HandlerValue
                      /\ Cardinality(SettledCalls(pass, k, "threw")
                                     \cup SettledCalls(pass, k, "ok")) <= 1)
    /\ [][(pass.pc = "idle" /\ pass'.kind \in FanOutHelpers) =>
            /\ pass'.kind = "routeEventToAll" => pass'.snapshot = plugins
            /\ pass'.calls = <<>>
            /\ pass'.inflight =
                  {InFlight(k, HookToCall(pass'.event, pass'.snapshot[k])) :
                      k \in {j \in 1..Len(pass'.snapshot) :
                                HookToCall(pass'.event, pass'.snapshot[j]) # "none"}}]_vars
    /\ [][(FanOutRunning /\ pass'.kind = pass.kind /\ pass'.calls # pass.calls) =>
            /\ pass'.snapshot = pass.snapshot
            /\ Cardinality({k \in 1..Len(pass.results) :
                               pass'.results[k] # pass.results[k]}) = 1
            /\ Cardinality(pass.inflight \ pass'.inflight) = 1
            /\ pass'.inflight \subseteq pass.inflight]_vars

\* three targets: a later one's handler has thrown while an earlier one's is
\* still awaited, and the target without a handler has its entry
C28_Witness ==
    /\ FanOutRunning /\ pass.pc = "awaitAll"
    /\ Len(pass.snapshot) = 3
    /\ \E i, j, k \in 1..3 :
          /\ i < j
          /\ pass.results[i] = Pending(pass.snapshot[i])
          /\ pass.results[j] = FanOutErrorEntry(pass.snapshot[j], "Error")
          /\ pass.results[k] = NoHandler(pass.snapshot[k])

(***************************************************************************)
(* No timeout, no cancellation                                             *)
(***************************************************************************)
ManagerPasses == {"routeEvent", "performSystemSync", "getSystemStatus"}

\* the pass as the calls of the environment leave it
PassProgress(p) == [p EXCEPT !.env = 0]

\* C30: a pass awaits one plugin call at a time and nothing but the
\* settlement of that call moves it: while the call is pending the pass is
\* not complete and has called no plugin further down its snapshot; and when
\* every call settles, the pass completes
C30_NoTimeoutNoCancellation ==
    /\ []((pass.kind \in ManagerPasses /\ pass.inflight # {}) =>
            /\ pass.pc \notin {"done", "rejected", "idle"}
            /\ \E m \in HookMethods \cup {"getSettings", "sync"} :
                  pass.inflight = {InFlight(pass.i, m)}
            /\ \A j \in (pass.i + 1)..Len(pass.snapshot) :
                  \A c \in 1..Len(pass.calls) :
                     pass.calls[c].name # pass.snapshot[j].name)
    /\ []((pass.kind \in ManagerPasses /\ pass.pc = "done") =>
            /\ pass.inflight = {}
            /\ \A j \in 1..Len(pass.snapshot) :
                  \E c \in 1..Len(pass.calls) :
                     pass.calls[c].name = pass.snapshot[j].name)
    /\ [][(/\ pass.kind \in ManagerPasses /\ pass.inflight # {}
           /\ PassProgress(pass') # PassProgress(pass)) =>
            /\ pass'.kind = pass.kind
            /\ Len(pass'.calls) = Len(pass.calls) + 1
            /\ SubSeq(pass'.calls, 1, Len(pass.calls)) = pass.calls
            /\ InFlight(pass.i, pass'.calls[Len(pass'.calls)].method) \in pass.inflight
            /\ pass'.calls[Len(pass'.calls)].name = pass.snapshot[pass.i].name]_vars
    /\ (pass.kind \in ManagerPasses /\ pass.inflight # {}) ~> (pass.pc = "done")

\* a performSystemSync pass over two plugins is suspended in the first one's
\* sync() while calls from outside have been made: the second plugin has not
\* been called
C30_Witness ==
    /\ pass.kind = "performSystemSync" /\ pass.pc = "sync" /\ pass.i = 1
    /\ Len(pass.snapshot) = 2
    /\ pass.inflight = {InFlight(1, "sync")}
    /\ pass.env = MaxEnvStepsInPass
    /\ \A c \in 1..Len(pass.calls) : pass.calls[c].name = pass.snapshot[1].name

(***************************************************************************)
(* routeEvent: dispatch by event type                                      *)
(***************************************************************************)
\* C31: every hook call of a routeEvent pass is the hook event.type names, on
\* a plugin that implements it, with event (event.id for onEventDeleted) as
\* argument, at most one per plugin; an event of another type, or a plugin
\* without that hook, gets no hook call, the pass then just goes on to the
\* next plugin and never rejects
C31_DispatchByEventType ==
    /\ [](pass.kind = "routeEvent" =>
            /\ pass.pc # "rejected"
            /\ \A j \in 1..Len(pass.calls) :
                  pass.calls[j].method # "getSettings" =>
                     /\ pass.calls[j].method = HookOfType(pass.event)
                     /\ pass.calls[j].method \in HookMethods
                     /\ pass.calls[j].method \in
                           pass.snapshot[SnapshotPosition(pass, pass.calls[j])].hooks
                     /\ pass.calls[j].arg =
                           (IF pass.event = "deleted" THEN "event.id" ELSE "event")
            /\ \A k \in 1..Len(pass.snapshot) :
                  /\ Cardinality(CallsOn(pass, pass.snapshot[k], HookMethods)) <= 1
                  /\ HookOfType(pass.event) \notin pass.snapshot[k].hooks =>
                        CallsOn(pass, pass.snapshot[k], HookMethods) = {})
    /\ [][(/\ pass.kind = "routeEvent" /\ pass.pc = "getSettings"
           /\ pass'.calls # pass.calls
           /\ pass'.calls[Len(pass'.calls)].outcome = "enabled"
           /\ HookOfType(pass.event) \notin pass.snapshot[pass.i].hooks) =>
            /\ pass'.inflight \subseteq {InFlight(pass.i + 1, "getSettings")}
            /\ pass'.i = pass.i + 1
            /\ pass'.pc \in {"getSettings", "done"}]_vars

\* a finished pass for a 'deleted' event over two enabled plugins: the one
\* that implements onEventDeleted got it with event.id, the one that
\* implements only onEventCreated got no hook call
C31_Witness ==
    /\ RouteDone /\ pass.event = "deleted" /\ Len(pass.snapshot) = 2
    /\ \E k1, k2 \in 1..2 :
          /\ SettingsOutcomeIs(pass, pass.snapshot[k1], "enabled")
          /\ \E j \in CallsOn(pass, pass.snapshot[k1], {"onEventDeleted"}) :
                pass.calls[j].arg = "event.id"
          /\ SettingsOutcomeIs(pass, pass.snapshot[k2], "enabled")
          /\ pass.snapshot[k2].hooks = {"onEventCreated"}
          /\ CallsOn(pass, pass.snapshot[k2], HookMethods) = {}

(***************************************************************************)
(* unloadPlugin and registry membership                                    *)
(***************************************************************************)
\* the id is in some bucket of the capability index
Indexed(I, id) == \E c \in DOMAIN I : id \in I[c]

\* C32 as stated: unloadPlugin of a registered plugin, nothing else touching
\* the registry meanwhile, leaves the plugin registered while destroy() is
\* pending; when destroy() resolved, the id is in neither the plugin map nor
\* any bucket of the capability index; when destroy() threw, unloadPlugin
\* rejects and the plugin is still the map entry, with its index entries
C32_UnloadDestroysThenUnregisters ==
    (pass.kind = "unloadPlugin" /\ pass.snapshot # <<>> /\ pass.env = 0) =>
        /\ pass.pc = "destroy" => MapGet(plugins, pass.event) = pass.snapshot[1]
        /\ pass.pc = "done" =>
              /\ MethodsCalled(pass) = <<"destroy">> /\ NoCallThrew(pass)
              /\ ~MapHas(plugins, pass.event)
              /\ ~Indexed(capabilityIndex, pass.event)
        /\ pass.pc = "rejected" =>
              /\ MethodsCalled(pass) = <<"destroy">> /\ ~NoCallThrew(pass)
              /\ MapGet(plugins, pass.event) = pass.snapshot[1]
              /\ \A c \in DeclaredTypes(pass.snapshot[1]) :
                    pass.event \in capabilityIndex[c]

\* the ids the plugin map holds
RegisteredIds(P) == {P[k].id : k \in DOMAIN P}

\* a step the addressed operation itself takes: its call, or the continuation
\* after one of its awaits (calls from outside count pass.env up instead)
OwnStep ==
    /\ pass' # pass
    /\ \/ pass.pc = "idle" /\ pass'.kind \in LifecycleOps \cup SettingsOps
       \/ /\ pass.kind \in LifecycleOps \cup SettingsOps
          /\ pass'.kind = pass.kind /\ pass'.env = pass.env

\* C33: no step of loadPlugin, startPlugin, stopPlugin, enablePlugin or
\* disablePlugin, resolving or rejecting, changes the plugin map or the
\* capability index; no step of any operation addressed to a plugin adds an id
\* to the map, and the only step that removes one is the unregister that
\* unloadPlugin (alone or inside reloadPlugin) makes after destroy() resolved
C33_OnlyUnloadChangesMembership ==
    [][OwnStep =>
         /\ pass'.kind \notin {"unloadPlugin", "reloadPlugin"} =>
                plugins' = plugins /\ capabilityIndex' = capabilityIndex
         /\ RegisteredIds(plugins') \subseteq RegisteredIds(plugins)
         /\ RegisteredIds(plugins') # RegisteredIds(plugins) =>
                /\ pass.kind \in {"unloadPlugin", "reloadPlugin"}
                /\ pass.pc = "destroy" /\ pass'.pc \in {"done", "load"}
                /\ RegisteredIds(plugins) \ RegisteredIds(plugins') = {pass.event}]_vars

\* stopPlugin resolved after destroy() and the plugin is still registered
C33_Witness ==
    /\ pass.kind = "stopPlugin" /\ pass.pc = "done" /\ pass.env = 0
    /\ MethodsCalled(pass) = <<"destroy">>
    /\ MapHas(plugins, pass.event)
    /\ Indexed(capabilityIndex, pass.event)

(***************************************************************************)
(* Discovery by capability                                                 *)
(***************************************************************************)
\* the plugin object is the one the map holds under its id
IsRegistered(P, plugin) == MapHas(P, plugin.id) /\ MapGet(P, plugin.id) = plugin

\* C34 as stated: in every state register / unregister sequences reach, every
\* plugin getPluginsByCapability(c) returns is the registered object of its
\* id and declares c, and no two ids of the bucket yield the same plugin
C34_DiscoverySoundness ==
    \A c \in AllCapabilities :
        /\ \A plugin \in getPluginsByCapability(c) :
              IsRegistered(plugins, plugin) /\ c \in DeclaredTypes(plugin)
        /\ Cardinality(getPluginsByCapability(c)) =
              Cardinality({id \in MapIds(plugins) :
                              c \in DOMAIN capabilityIndex /\ id \in capabilityIndex[c]})

(***************************************************************************)
(* Discovery by several capabilities                                       *)
(***************************************************************************)
\* the capability lists callers query with: none, one or two capabilities
QueriedCapabilities == {"import", "export", "sync", "oauth", "api"}

QueriedLists ==
    {<<>>} \cup {<<c>> : c \in QueriedCapabilities}
           \cup {<<c, d>> : c \in QueriedCapabilities, d \in QueriedCapabilities}

\* the registered plugins that declare every capability of the list
DeclaringAll(P, capabilities) ==
    {P[k] : k \in {j \in DOMAIN P :
                     \A n \in DOMAIN capabilities :
                        capabilities[n] \in DeclaredTypes(P[j])}}

\* C35 as stated: getPluginsByMultipleCapabilities(caps) is the empty list for
\* an empty caps and otherwise exactly the registered plugins declaring every
\* capability of caps; every entry returned is a registered plugin
C35_MultipleCapabilitiesExact ==
    \A capabilities \in QueriedLists :
        /\ \A plugin \in getPluginsByMultipleCapabilities(capabilities) :
              IsRegistered(plugins, plugin)
        /\ getPluginsByMultipleCapabilities(capabilities) =
              IF capabilities = <<>> THEN {} ELSE DeclaringAll(plugins, capabilities)

(***************************************************************************)
(* updateLifeOSVersion                                                     *)
(***************************************************************************)
\* the plugin object a recorded register call was made with
ObjectNamed(name) == CHOOSE p \in PluginObjects : p.name = name

\* C36: updateLifeOSVersion leaves the plugin map, the capability index and
\* the plugins' settings as they were, also for registered plugins whose range
\* the new version does not satisfy; a register made afterwards throws exactly
\* when the version configured at that moment does not satisfy the plugin's
\* range, and checkCompatibility reports against the configured version
C36_UpdateVersionOnlyChangesVersion ==
    /\ [][/\ lastOp'.op = "updateLifeOSVersion" =>
               /\ plugins' = plugins /\ capabilityIndex' = capabilityIndex
               /\ settings' = settings
               /\ currentLifeOSVersion' \in HostVersions
          /\ lastOp'.op = "register" =>
               /\ currentLifeOSVersion' = currentLifeOSVersion
               /\ lastOp'.threw =
                     ~satisfiesVersion(currentLifeOSVersion,
                                       ObjectNamed(lastOp'.name).requiredLifeOSVersion)
               /\ ~lastOp'.threw => IsRegistered(plugins', ObjectNamed(lastOp'.name))
               /\ lastOp'.threw => plugins' = plugins]_vars
    /\ [](\A p \in PluginObjects :
             /\ checkCompatibility(p).lifeOSVersion = currentLifeOSVersion
             /\ checkCompatibility(p).compatible =
                   satisfiesVersion(currentLifeOSVersion, p.requiredLifeOSVersion))

\* B, registered at 1.0.0, is still registered and indexed at 2.1.0, which its
\* range ^1.0.0 excludes, and the register of A2 made at 2.1.0 went through
C36_Witness ==
    /\ currentLifeOSVersion = V210
    /\ IsRegistered(plugins, PluginB) /\ ~checkCompatibility(PluginB).compatible
    /\ "b" \in capabilityIndex["sync"]
    /\ lastOp = [op |-> "register", id |-> "a", name |-> "A2", threw |-> FALSE]
    /\ IsRegistered(plugins, PluginA2)

(***************************************************************************)
(* Overlap of sync passes, and plugin calls after destroy()                *)
(***************************************************************************)
\* the pass the k-th tick started has not returned
Running(k) == manager.autoSync[k].pc \notin {"done", "rejected"}

\* the pass the k-th tick started awaits sync() of the plugin with this id
AwaitsSyncOf(k, id) ==
    /\ manager.autoSync[k].pc = "sync"
    /\ Current(manager.autoSync[k]).id = id

\* C37 as stated: at most one performSystemSync pass is in progress on the
\* Manager at any moment, and no plugin has two sync() invocations pending
C37_SyncPassesDoNotOverlap ==
    \A j \in DOMAIN manager.autoSync : \A k \in DOMAIN manager.autoSync :
        j # k =>
            /\ ~(Running(j) /\ Running(k))
            /\ \A id \in PluginIds : ~(AwaitsSyncOf(j, id) /\ AwaitsSyncOf(k, id))

\* two passes await sync() of the same plugin
C37_DoubleSync ==
    \E j \in DOMAIN manager.autoSync : \E k \in DOMAIN manager.autoSync :
        j # k /\ AwaitsSyncOf(j, "a") /\ AwaitsSyncOf(k, "a")

\* C38 as stated: once destroy() has returned, no tick starts a pass and no
\* pass a tick started invokes another getSettings() or sync() on a plugin,
\* also when destroy() was called while such a pass was awaiting a plugin call
C38_NoPluginCallAfterDestroy ==
    [][manager.destroyed =>
         /\ Len(manager'.autoSync) = Len(manager.autoSync)
         /\ \A k \in DOMAIN manager.autoSync :
               manager'.autoSync[k].inflight \subseteq manager.autoSync[k].inflight]_vars

(***************************************************************************)
(* OAuthService: startOAuthFlow and handleOAuthCallback                    *)
(***************************************************************************)
\* the variables of the registry and the Manager, which the services leave alone
coreVars == <<plugins, capabilityIndex, currentLifeOSVersion, settings, pass, lastOp,
              probe, manager>>

\* 5 * 60 * 1000 ms, in minutes: the age beyond which a flow is expired
FlowLifetime == 5

\* minutes the clock is followed for
MaxNow == 6

\* states generated, and callbacks delivered, in one behaviour
MaxFlows == 2

MaxCallbacks == 2

\* generateOAuthState: Math.random() is taken to return a text never returned
\* before, the nonce-th one
generateOAuthState(pluginId, now, nonce) ==
    [active |-> TRUE, pluginId |-> pluginId, timestamp |-> now, nonce |-> nonce]

\* startOAuthFlow: the state is generated, new URL(config.authUrl) throws on a
\* text that is no URL, otherwise the flow replaces the plugin's active flow
StartOAuthFlowResult(o, pluginId, urlValid) ==
    IF ~urlValid THEN [o EXCEPT !.nonces = @ + 1]
    ELSE [o EXCEPT !.nonces = @ + 1,
                   !.activeFlows[pluginId] =
                       generateOAuthState(pluginId, o.now, o.nonces + 1)]

StartOAuthFlow(pluginId, urlValid) ==
    /\ oauth.nonces < MaxFlows
    /\ oauth' = StartOAuthFlowResult(oauth, pluginId, urlValid)
    /\ UNCHANGED <<coreVars, marketplace>>

\* a handleOAuthCallback in progress or returned
Callback(pluginId, state, pc, error) ==
    [pluginId |-> pluginId, state |-> state, pc |-> pc, error |-> error]

\* handleOAuthCallback up to its await: the state is verified against the
\* plugin's active flow, an expired flow is deleted, and the token exchange is
\* started
CallbackVerified(o, pluginId, state) ==
    LET activeState == o.activeFlows[pluginId] IN
        IF ~activeState.active \/ activeState.nonce # state
        THEN [o EXCEPT !.callbacks =
                  Append(@, Callback(pluginId, state, "rejected",
                                     "Invalid OAuth state parameter"))]
        ELSE IF o.now - activeState.timestamp > FlowLifetime
        THEN [o EXCEPT !.activeFlows[pluginId] = NoFlow,
                       !.callbacks =
                  Append(@, Callback(pluginId, state, "rejected", "OAuth flow expired"))]
        ELSE [o EXCEPT !.callbacks =
                  Append(@, Callback(pluginId, state, "exchange", ""))]

HandleOAuthCallback(pluginId, state) ==
    /\ Len(oauth.callbacks) < MaxCallbacks
    /\ oauth' = CallbackVerified(oauth, pluginId, state)
    /\ UNCHANGED <<coreVars, marketplace>>

\* await this.exchangeCodeForTokens(code, config) settles: on a response that
\* is not ok the callback rejects; otherwise the tokens (those of the k-th
\* callback's exchange) are stored and the plugin's active flow is deleted
CallbackExchanged(o, k, ok) ==
    IF ~ok
    THEN [o EXCEPT !.callbacks[k].pc = "rejected",
                   !.callbacks[k].error = "Token exchange failed"]
    ELSE [o EXCEPT !.tokenStorage[o.callbacks[k].pluginId] =
                       [stored |-> TRUE, by |-> k],
                   !.activeFlows[o.callbacks[k].pluginId] = NoFlow,
                   !.callbacks[k].pc = "resolved"]

ExchangeSettles(k, ok) ==
    /\ k \in DOMAIN oauth.callbacks
    /\ oauth.callbacks[k].pc = "exchange"
    /\ oauth' = CallbackExchanged(oauth, k, ok)
    /\ UNCHANGED <<coreVars, marketplace>>

\* a minute passes
ClockTick ==
    /\ oauth.now < MaxNow
    /\ oauth' = [oauth EXCEPT !.now = @ + 1]
    /\ UNCHANGED <<coreVars, marketplace>>

\* the state parameters callbacks present: the nonces generated, and one that
\* never was (0)
PresentedStates == 0..MaxFlows

OAuthNext ==
    \/ \E id \in OAuthPlugins : \E urlValid \in BOOLEAN : StartOAuthFlow(id, urlValid)
    \/ \E id \in OAuthPlugins : \E state \in PresentedStates : HandleOAuthCallback(id, state)
    \/ \E k \in 1..MaxCallbacks : \E ok \in BOOLEAN : ExchangeSettles(k, ok)
    \/ ClockTick

SpecOAuth == Init /\ [][OAuthNext]_vars

\* C39 as stated: no two callbacks that presented the same state for the same
\* plugin both resolve, whether or not they were in flight together; a
\* callback resolves only with a state generated for its plugin; and a
\* callback rejected for its state or for an expired flow leaves the token
\* storage as it was
C39_OAuthStateSingleUse ==
    /\ [](\A j \in DOMAIN oauth.callbacks : \A k \in DOMAIN oauth.callbacks :
             (/\ j # k
              /\ oauth.callbacks[j].pluginId = oauth.callbacks[k].pluginId
              /\ oauth.callbacks[j].state = oauth.callbacks[k].state)
             => ~(oauth.callbacks[j].pc = "resolved" /\ oauth.callbacks[k].pc = "resolved"))
    /\ [](\A k \in DOMAIN oauth.callbacks :
             oauth.callbacks[k].pc \in {"exchange", "resolved"} =>
                 oauth.callbacks[k].state \in 1..oauth.nonces)
    /\ [][Len(oauth'.callbacks) > Len(oauth.callbacks) =>
            (oauth'.callbacks[Len(oauth'.callbacks)].pc = "rejected" =>
                oauth'.tokenStorage = oauth.tokenStorage)]_vars

(***************************************************************************)
(* MarketplaceService: installPlugin and uninstallPlugin                   *)
(***************************************************************************)
\* installPlugin / uninstallPlugin calls made in one behaviour
MaxCalls == 3

\* the settings argument of installPlugin: left out, or an object
InstallSettings == {"none", "custom"}

\* an installPlugin / uninstallPlugin call in progress or returned
MarketCall(op, pluginId, callSettings, pc, result) ==
    [op |-> op, pluginId |-> pluginId, settings |-> callSettings, pc |-> pc,
     result |-> result]

\* the PluginInstallation the k-th call builds: settings || {}, and
\* installedAt, which tells the records of two calls apart
Installation(c, k) ==
    [installed |-> TRUE, pluginId |-> c.pluginId, status |-> "active",
     settings |-> c.settings, by |-> k]

\* saveInstalledPlugins(): the map is written to storage
SaveInstalledPlugins(m) == [m EXCEPT !.saved = m.installedPlugins]

\* installPlugin up to its first await, await this.getPlugin(pluginId)
InstallPluginCall(pluginId, callSettings) ==
    /\ Len(marketplace.calls) < MaxCalls
    /\ marketplace' = [marketplace EXCEPT !.calls =
           Append(@, MarketCall("installPlugin", pluginId, callSettings,
                                "getPlugin", "pending"))]
    /\ UNCHANGED <<coreVars, oauth>>

\* getPlugin() resolved: a plugin the catalog does not list, or one already
\* installed, throws and the catch returns false; otherwise
\* simulateInstallation(plugin) is awaited
InstallChecked(m, k) ==
    IF m.calls[k].pluginId \notin Catalog
       \/ m.installedPlugins[m.calls[k].pluginId].installed
    THEN [m EXCEPT !.calls[k].pc = "returned", !.calls[k].result = "false"]
    ELSE [m EXCEPT !.calls[k].pc = "simulateInstallation"]

InstallCheck(k) ==
    /\ k \in DOMAIN marketplace.calls
    /\ marketplace.calls[k].op = "installPlugin" /\ marketplace.calls[k].pc = "getPlugin"
    /\ marketplace' = InstallChecked(marketplace, k)
    /\ UNCHANGED <<coreVars, oauth>>

\* simulateInstallation() resolved: this.installedPlugins.set(pluginId,
\* installation), saveInstalledPlugins(), return true
InstallFinished(m, k) ==
    SaveInstalledPlugins(
        [m EXCEPT !.installedPlugins[m.calls[k].pluginId] = Installation(m.calls[k], k),
                  !.calls[k].pc = "returned", !.calls[k].result = "true"])

InstallFinish(k) ==
    /\ k \in DOMAIN marketplace.calls
    /\ marketplace.calls[k].pc = "simulateInstallation"
    /\ marketplace' = InstallFinished(marketplace, k)
    /\ UNCHANGED <<coreVars, oauth>>

\* uninstallPlugin up to its await: a plugin that is not installed throws and
\* the catch returns false; otherwise simulateUninstallation(pluginId) is awaited
UninstallCalled(m, pluginId) ==
    IF ~m.installedPlugins[pluginId].installed
    THEN [m EXCEPT !.calls =
             Append(@, MarketCall("uninstallPlugin", pluginId, "none", "returned", "false"))]
    ELSE [m EXCEPT !.calls =
             Append(@, MarketCall("uninstallPlugin", pluginId, "none",
                                  "simulateUninstallation", "pending"))]

UninstallPluginCall(pluginId) ==
    /\ Len(marketplace.calls) < MaxCalls
    /\ marketplace' = UninstallCalled(marketplace, pluginId)
    /\ UNCHANGED <<coreVars, oauth>>

\* simulateUninstallation() resolved: this.installedPlugins.delete(pluginId),
\* saveInstalledPlugins(), return true
UninstallFinished(m, k) ==
    SaveInstalledPlugins(
        [m EXCEPT !.installedPlugins[m.calls[k].pluginId] = NotInstalled,
                  !.calls[k].pc = "returned", !.calls[k].result = "true"])

UninstallFinish(k) ==
    /\ k \in DOMAIN marketplace.calls
    /\ marketplace.calls[k].pc = "simulateUninstallation"
    /\ marketplace' = UninstallFinished(marketplace, k)
    /\ UNCHANGED <<coreVars, oauth>>

MarketplaceNext ==
    \/ \E id \in MarketIds : \E s \in InstallSettings : InstallPluginCall(id, s)
    \/ \E k \in 1..MaxCalls : InstallCheck(k)
    \/ \E k \in 1..MaxCalls : InstallFinish(k)
    \/ \E id \in MarketIds : UninstallPluginCall(id)
    \/ \E k \in 1..MaxCalls : UninstallFinish(k)

SpecMarketplace == Init /\ [][MarketplaceNext]_vars

\* the k-th call is an installPlugin that returns true in this step
ReturnsTrue(k) ==
    /\ marketplace.calls[k].op = "installPlugin"
    /\ marketplace.calls[k].result = "pending"
    /\ marketplace'.calls[k].result = "true"

\* C40 as stated: while a plugin is installed no installPlugin call for its id
\* returns true, and no step replaces its installation record by another one,
\* also when installPlugin calls for the id overlap
C40_InstalledAtMostOnce ==
    [][\A id \in MarketIds :
          marketplace.installedPlugins[id].installed =>
              /\ \A k \in DOMAIN marketplace.calls :
                    marketplace.calls[k].pluginId = id => ~ReturnsTrue(k)
              /\ marketplace'.installedPlugins[id].installed =>
                    marketplace'.installedPlugins[id] = marketplace.installedPlugins[id]]_vars

====
